---- MODULE Spec2Model ----
(***************************************************************************)
(* The Albatross staking contract (primitives/account/src/staking_contract) *)
(* as a state machine: the contract's collections, the validator and       *)
(* staker actions with their inverses, and the Slash / FinalizeEpoch       *)
(* inherents.  A block processor commits operations at the current block   *)
(* height and, on a reorganisation, reverts the most recent ones in        *)
(* reverse order, each with the receipt its commit returned.               *)
(***************************************************************************)
EXTENDS Integers, Sequences, FiniteSets, TLC

VARIABLES
    balance,                      \* StakingContract.balance
    arc,                          \* the Arc<Mutex<Validator>> cells: handle -> Validator
    active_validators_sorted,     \* BTreeSet<Arc<..>>, as its in-order sequence of handles
    active_validators_by_key,     \* HashMap<BlsPublicKey, Arc<..>>
    inactive_validators_by_key,   \* BTreeMap<BlsPublicKey, InactiveValidator>
    current_epoch_parking,        \* HashSet<BlsPublicKey>
    previous_epoch_parking,       \* HashSet<BlsPublicKey>
    inactive_stake_by_address,    \* HashMap<Address, InactiveStake>
    block_height,                 \* height of the block being applied
    log,                          \* committed, still revertible operations (newest first)
    created,                      \* keys of the validators created and not dropped
    last,                         \* the latest operation that took effect, and its result
    steps,                        \* operations applied so far
    budget                        \* operations the behaviour may apply in all

vars == <<balance, arc, active_validators_sorted, active_validators_by_key,
          inactive_validators_by_key, current_epoch_parking, previous_epoch_parking,
          inactive_stake_by_address, block_height, log,
          created, last, steps, budget>>

----------------------------------------------------------------------------
(* Bounds of the model. *)
NumKeys == 2
NumAddrs == 2
MaxValue == 2
MaxHeight == 2
MaxLog == 2
MaxSteps == 4
DeepSteps == 6
MaxArcs == 3
MaxValidatorBalance == 3

(* Coin::MAX, scaled down. *)
MAX_COIN == 3

BlsPublicKey == 1 .. NumKeys
Address == 1 .. NumAddrs
Coin == 0 .. MaxValue
NoArc == 0

----------------------------------------------------------------------------
(* Maps (HashMap / BTreeMap) as functions on their key sets. *)
EmptyMap == [x \in {} |-> 0]
MapPut(m, k, v) == [x \in (DOMAIN m) \cup {k} |-> IF x = k THEN v ELSE m[x]]
MapRemove(m, k) == [x \in (DOMAIN m) \ {k} |-> m[x]]
contains_key(m, k) == k \in DOMAIN m

RECURSIVE SumOver(_, _)
SumOver(m, S) ==
    IF S = {} THEN 0
    ELSE LET x == CHOOSE y \in S : TRUE IN m[x] + SumOver(m, S \ {x})
MapSum(m) == SumOver(m, DOMAIN m)

(* Option<Receipt>. *)
None == [some |-> FALSE]
Some(r) == [some |-> TRUE, val |-> r]

(* Result of an action: the contract as the call leaves it, Ok or the     *)
(* AccountError kind, and the receipt of an Ok.                            *)
Ok(self, receipt) == [self |-> self, res |-> "Ok", receipt |-> receipt]
Err(self, kind) == [self |-> self, res |-> kind, receipt |-> None]

(* Account::balance_add / balance_sub: checked Coin arithmetic. *)
balance_add(a, b) == [ok |-> a + b <= MAX_COIN, val |-> a + b]
balance_sub(a, b) == [ok |-> a >= b, val |-> a - b]

----------------------------------------------------------------------------
(* impl Ord for Validator: highest balance first, then validator_key. *)
ValidatorCmp(v, w) ==
    IF w.balance < v.balance THEN "Less"
    ELSE IF w.balance > v.balance THEN "Greater"
    ELSE IF v.validator_key < w.validator_key THEN "Less"
    ELSE IF v.validator_key > w.validator_key THEN "Greater"
    ELSE "Equal"

(* BTreeSet search in a single leaf node (the set holds at most MaxArcs    *)
(* elements, fewer than a node's capacity): a linear scan that stops at    *)
(* the first element the probe is not greater than.  It compares the       *)
(* elements' current values, whatever they were when inserted.             *)
RECURSIVE search_node(_, _, _, _)
search_node(heap, seq, x, i) ==
    IF i > Len(seq) THEN [found |-> FALSE, idx |-> i]
    ELSE LET c == ValidatorCmp(heap[x], heap[seq[i]]) IN
         IF c = "Greater" THEN search_node(heap, seq, x, i + 1)
         ELSE [found |-> (c = "Equal"), idx |-> i]

RemoveAt(seq, i) == SubSeq(seq, 1, i - 1) \o SubSeq(seq, i + 1, Len(seq))

(* BTreeSet::insert: an element comparing Equal is kept, the new one dropped. *)
sorted_insert(heap, seq, x) ==
    LET s == search_node(heap, seq, x, 1) IN
    IF s.found THEN seq
    ELSE SubSeq(seq, 1, s.idx - 1) \o <<x>> \o SubSeq(seq, s.idx, Len(seq))

(* BTreeSet::remove: removes the element the search finds Equal, if any. *)
sorted_remove(heap, seq, x) ==
    LET s == search_node(heap, seq, x, 1) IN
    IF s.found THEN RemoveAt(seq, s.idx) ELSE seq

----------------------------------------------------------------------------
(* The contract as one value. *)
Self ==
    [balance |-> balance, arc |-> arc,
     active_validators_sorted |-> active_validators_sorted,
     active_validators_by_key |-> active_validators_by_key,
     inactive_validators_by_key |-> inactive_validators_by_key,
     current_epoch_parking |-> current_epoch_parking,
     previous_epoch_parking |-> previous_epoch_parking,
     inactive_stake_by_address |-> inactive_stake_by_address]

(* Arc cells some collection still refers to; the others have been dropped. *)
Referenced(self) ==
    {self.active_validators_sorted[i] : i \in 1 .. Len(self.active_validators_sorted)}
    \cup {self.active_validators_by_key[k] : k \in DOMAIN self.active_validators_by_key}
    \cup {self.inactive_validators_by_key[k].validator : k \in DOMAIN self.inactive_validators_by_key}

(* Arc::new: a cell nothing refers to. *)
FreeArcs(self) == (1 .. MaxArcs) \ Referenced(self)
ArcNew(self) ==
    IF FreeArcs(self) = {} THEN MaxArcs + 1
    ELSE CHOOSE h \in FreeArcs(self) : \A g \in FreeArcs(self) : h <= g

(* Dropping the last Arc to a validator frees its cell. *)
DropUnreferenced(self) ==
    [self EXCEPT !.arc = [h \in Referenced(self) |-> self.arc[h]]]

(* StakingContract::get_validator *)
get_validator(self, validator_key) ==
    IF contains_key(self.active_validators_by_key, validator_key)
    THEN self.active_validators_by_key[validator_key]
    ELSE IF contains_key(self.inactive_validators_by_key, validator_key)
    THEN self.inactive_validators_by_key[validator_key].validator
    ELSE NoArc

(* The contract with every Arc replaced by the validator it points to:    *)
(* what serialization and field-by-field comparison observe.               *)
View(self) ==
    [balance |-> self.balance,
     active_validators_sorted |->
        [i \in 1 .. Len(self.active_validators_sorted) |-> self.arc[self.active_validators_sorted[i]]],
     active_validators_by_key |->
        [k \in DOMAIN self.active_validators_by_key |-> self.arc[self.active_validators_by_key[k]]],
     inactive_validators_by_key |->
        [k \in DOMAIN self.inactive_validators_by_key |->
            [validator |-> self.arc[self.inactive_validators_by_key[k].validator],
             retire_time |-> self.inactive_validators_by_key[k].retire_time]],
     current_epoch_parking |-> self.current_epoch_parking,
     previous_epoch_parking |-> self.previous_epoch_parking,
     inactive_stake_by_address |-> self.inactive_stake_by_address]

----------------------------------------------------------------------------
(* Staker actions: actions/staker.rs *)

(* stake as it would be if it credited the staker's entry and the contract  *)
(* but left the validator's balance alone.                                  *)
stake_without_validator_balance(self, staker_address, value, validator_key) ==
    LET validator == get_validator(self, validator_key) IN
    IF validator = NoArc THEN Err(self, "InvalidForRecipient")
    ELSE LET sum == balance_add(self.balance, value) IN
         IF ~sum.ok THEN Err(self, "ArithmeticOverflow")
         ELSE LET m == self.arc[validator].active_stake_by_address
                  entry == IF contains_key(m, staker_address) THEN m[staker_address] ELSE 0
              IN Ok([self EXCEPT
                        !.balance = sum.val,
                        !.arc[validator].active_stake_by_address =
                            MapPut(m, staker_address, entry + value)],
                    None)

stake(self, staker_address, value, validator_key) ==
    LET validator == get_validator(self, validator_key) IN
    IF validator = NoArc THEN Err(self, "InvalidForRecipient")
    ELSE LET sum == balance_add(self.balance, value) IN
         IF ~sum.ok THEN Err(self, "ArithmeticOverflow")
         ELSE LET v == self.arc[validator]
                  m == v.active_stake_by_address
                  entry == IF contains_key(m, staker_address) THEN m[staker_address] ELSE 0
              IN Ok([self EXCEPT
                        !.balance = sum.val,
                        !.arc[validator] =
                            [v EXCEPT !.balance = @ + value,
                                      !.active_stake_by_address =
                                          MapPut(m, staker_address, entry + value)]],
                    None)

revert_stake(self, staker_address, value, validator_key) ==
    LET validator == get_validator(self, validator_key) IN
    IF validator = NoArc THEN Err(self, "InvalidForSender")
    ELSE LET v == self.arc[validator]
             m == v.active_stake_by_address
         IN
         IF ~contains_key(m, staker_address) THEN Err(self, "InvalidForRecipient")
         ELSE IF value > m[staker_address] THEN Err(self, "InsufficientFunds")
         ELSE LET diff == balance_sub(self.balance, value) IN
              IF ~diff.ok THEN Err(self, "InsufficientFunds")
              ELSE LET stake_left == m[staker_address] - value IN
                   Ok([self EXCEPT
                          !.balance = diff.val,
                          !.arc[validator].active_stake_by_address =
                              IF stake_left = 0 THEN MapRemove(m, staker_address)
                              ELSE MapPut(m, staker_address, stake_left)],
                      None)

retire_sender(self, staker_address, value, validator_key) ==
    revert_stake(self, staker_address, value, validator_key)

reactivate_recipient(self, staker_address, value, validator_key) ==
    stake(self, staker_address, value, validator_key)

revert_retire_sender(self, staker_address, value, validator_key) ==
    reactivate_recipient(self, staker_address, value, validator_key)

InactiveStake(b, t) == [balance |-> b, retire_time |-> t]
InactiveStakeReceipt(t) == [retire_time |-> t]

(* A retirement that does not credit the contract balance. *)
retire_recipient_without_balance(self, staker_address, value, height) ==
    LET m == self.inactive_stake_by_address
        b == IF contains_key(m, staker_address) THEN m[staker_address].balance ELSE 0
    IN Ok([self EXCEPT !.inactive_stake_by_address =
                           MapPut(m, staker_address, InactiveStake(b + value, height))],
          IF contains_key(m, staker_address)
          THEN Some(InactiveStakeReceipt(m[staker_address].retire_time))
          ELSE None)

retire_recipient(self, staker_address, value, height) ==
    LET sum == balance_add(self.balance, value) IN
    IF ~sum.ok THEN Err(self, "ArithmeticOverflow")
    ELSE LET s1 == [self EXCEPT !.balance = sum.val]
             m == self.inactive_stake_by_address
         IN
         IF contains_key(m, staker_address)
         THEN LET inactive_stake == m[staker_address]
                  removed == [s1 EXCEPT !.inactive_stake_by_address = MapRemove(m, staker_address)]
                  merged == balance_add(inactive_stake.balance, value)
              IN IF ~merged.ok THEN Err(removed, "ArithmeticOverflow")
                 ELSE Ok([s1 EXCEPT !.inactive_stake_by_address =
                                MapPut(m, staker_address, InactiveStake(merged.val, height))],
                         Some(InactiveStakeReceipt(inactive_stake.retire_time)))
         ELSE Ok([s1 EXCEPT !.inactive_stake_by_address =
                        MapPut(m, staker_address, InactiveStake(value, height))],
                 None)

reactivate_sender(self, staker_address, value, height) ==
    LET m == self.inactive_stake_by_address IN
    IF ~contains_key(m, staker_address) THEN Err(self, "InvalidForRecipient")
    ELSE LET inactive_stake == m[staker_address]
             removed == [self EXCEPT !.inactive_stake_by_address = MapRemove(m, staker_address)]
             diff == balance_sub(self.balance, value)
         IN
         IF ~diff.ok THEN Err(removed, "InsufficientFunds")
         ELSE LET s1 == [removed EXCEPT !.balance = diff.val] IN
              IF inactive_stake.balance > value
              THEN Ok([s1 EXCEPT !.inactive_stake_by_address =
                            MapPut(m, staker_address,
                                   InactiveStake(inactive_stake.balance - value, height))],
                      Some(InactiveStakeReceipt(inactive_stake.retire_time)))
              ELSE Ok(s1, Some(InactiveStakeReceipt(inactive_stake.retire_time)))

revert_retire_recipient(self, staker_address, value, receipt) ==
    LET m == self.inactive_stake_by_address IN
    IF ~contains_key(m, staker_address) THEN Err(self, "InvalidForRecipient")
    ELSE IF (m[staker_address].balance > value) # receipt.some
    THEN Err(self, "InvalidForRecipient")
    ELSE LET height == IF receipt.some THEN receipt.val.retire_time ELSE 0
             r == reactivate_sender(self, staker_address, value, height)
         IN [r EXCEPT !.receipt = None]

revert_reactivate_sender(self, staker_address, value, receipt) ==
    LET r == retire_recipient(self, staker_address, value, receipt.retire_time)
    IN [r EXCEPT !.receipt = None]

(* An unstake that pays out but keeps the inactive stake. *)
unstake_keeping_inactive_stake(self, staker_address, total_value) ==
    LET m == self.inactive_stake_by_address IN
    IF ~contains_key(m, staker_address) THEN Err(self, "InvalidForSender")
    ELSE LET diff == balance_sub(self.balance, total_value) IN
         IF ~diff.ok THEN Err(self, "InsufficientFunds")
         ELSE Ok([self EXCEPT !.balance = diff.val], None)

unstake(self, staker_address, total_value) ==
    LET m == self.inactive_stake_by_address IN
    IF ~contains_key(m, staker_address) THEN Err(self, "InvalidForSender")
    ELSE LET inactive_stake == m[staker_address]
             removed == [self EXCEPT !.inactive_stake_by_address = MapRemove(m, staker_address)]
             diff == balance_sub(self.balance, total_value)
         IN
         IF ~diff.ok THEN Err(removed, "InsufficientFunds")
         ELSE LET s1 == [removed EXCEPT !.balance = diff.val] IN
              IF inactive_stake.balance > total_value
              THEN Ok([s1 EXCEPT !.inactive_stake_by_address =
                            MapPut(m, staker_address,
                                   InactiveStake(inactive_stake.balance - total_value,
                                                 inactive_stake.retire_time))],
                      None)
              ELSE IF inactive_stake.balance = total_value
              THEN Ok(s1, Some(InactiveStakeReceipt(inactive_stake.retire_time)))
              ELSE Err(s1, "Panic")

(* A revert of an unstake that does not insist on the receipt. *)
revert_unstake_lenient(self, staker_address, total_value, receipt) ==
    LET sum == balance_add(self.balance, total_value) IN
    IF ~sum.ok THEN Err(self, "ArithmeticOverflow")
    ELSE LET s1 == [self EXCEPT !.balance = sum.val]
             m == self.inactive_stake_by_address
         IN
         IF contains_key(m, staker_address)
         THEN Ok([s1 EXCEPT !.inactive_stake_by_address =
                        MapPut(m, staker_address,
                               InactiveStake(m[staker_address].balance + total_value,
                                             m[staker_address].retire_time))],
                 None)
         ELSE Ok([s1 EXCEPT !.inactive_stake_by_address =
                        MapPut(m, staker_address,
                               InactiveStake(total_value,
                                             IF receipt.some THEN receipt.val.retire_time ELSE 0))],
                 None)

revert_unstake(self, staker_address, total_value, receipt) ==
    LET sum == balance_add(self.balance, total_value) IN
    IF ~sum.ok THEN Err(self, "ArithmeticOverflow")
    ELSE LET s1 == [self EXCEPT !.balance = sum.val]
             m == self.inactive_stake_by_address
         IN
         IF contains_key(m, staker_address)
         THEN LET inactive_stake == m[staker_address]
                  removed == [s1 EXCEPT !.inactive_stake_by_address = MapRemove(m, staker_address)]
                  merged == balance_add(inactive_stake.balance, total_value)
              IN IF receipt.some THEN Err(removed, "InvalidReceipt")
                 ELSE IF ~merged.ok THEN Err(removed, "ArithmeticOverflow")
                 ELSE Ok([s1 EXCEPT !.inactive_stake_by_address =
                                MapPut(m, staker_address,
                                       InactiveStake(merged.val, inactive_stake.retire_time))],
                         None)
         ELSE IF ~receipt.some THEN Err(s1, "InvalidReceipt")
         ELSE Ok([s1 EXCEPT !.inactive_stake_by_address =
                        MapPut(m, staker_address,
                               InactiveStake(total_value, receipt.val.retire_time))],
                 None)

----------------------------------------------------------------------------
(* Validator actions: actions/validator.rs *)

Validator(b, reward_address, validator_key, stakes) ==
    [balance |-> b, reward_address |-> reward_address,
     validator_key |-> validator_key, active_stake_by_address |-> stakes]

create_validator(self, validator_key, reward_address, initial_stake) ==
    IF contains_key(self.active_validators_by_key, validator_key)
       \/ contains_key(self.inactive_validators_by_key, validator_key)
    THEN Err(self, "InvalidForRecipient")
    ELSE LET sum == balance_add(self.balance, initial_stake) IN
         IF ~sum.ok THEN Err(self, "ArithmeticOverflow")
         ELSE LET validator == ArcNew(self)
                  heap == MapPut(self.arc, validator,
                                 Validator(initial_stake, reward_address, validator_key, EmptyMap))
              IN Ok([self EXCEPT
                        !.balance = sum.val,
                        !.arc = heap,
                        !.active_validators_sorted = sorted_insert(heap, @, validator),
                        !.active_validators_by_key = MapPut(@, validator_key, validator)],
                    None)

revert_create_validator(self, validator_key, reward_address, initial_stake) ==
    IF ~contains_key(self.active_validators_by_key, validator_key)
    THEN Err(self, "InvalidForRecipient")
    ELSE LET validator == self.active_validators_by_key[validator_key]
             removed == [self EXCEPT !.active_validators_by_key = MapRemove(@, validator_key)]
             diff == balance_sub(self.balance, initial_stake)
         IN IF ~diff.ok THEN Err(removed, "InsufficientFunds")
            ELSE Ok([removed EXCEPT
                        !.balance = diff.val,
                        !.active_validators_sorted = sorted_remove(self.arc, @, validator)],
                    None)

UpdateValidatorReceipt(old_reward_address) == [old_reward_address |-> old_reward_address]

update_validator(self, old_validator_key, new_validator_key, new_reward_address) ==
    LET validator == get_validator(self, old_validator_key) IN
    IF validator = NoArc THEN Err(self, "InvalidForRecipient")
    ELSE Ok([self EXCEPT !.arc[validator].reward_address = new_reward_address,
                         !.arc[validator].validator_key = new_validator_key],
            Some(UpdateValidatorReceipt(self.arc[validator].reward_address)))

revert_update_validator(self, old_validator_key, new_validator_key, receipt) ==
    LET validator == get_validator(self, new_validator_key) IN
    IF validator = NoArc THEN Err(self, "InvalidForRecipient")
    ELSE Ok([self EXCEPT !.arc[validator].reward_address = receipt.old_reward_address,
                         !.arc[validator].validator_key = old_validator_key],
            None)

(* The keys of a BTreeMap in iteration (ascending) order. *)
RECURSIVE Ascending(_)
Ascending(S) ==
    IF S = {} THEN <<>>
    ELSE LET x == CHOOSE y \in S : \A z \in S : y <= z IN <<x>> \o Ascending(S \ {x})

(* The loop of drop_validator: retire every stake of the dropped validator, *)
(* stopping at the first error.                                             *)
RECURSIVE retire_all(_, _, _, _, _)
retire_all(self, stakes, order, retire_time, retirement_by_address) ==
    IF order = <<>> THEN Ok(self, Some(retirement_by_address))
    ELSE LET staker_address == Head(order)
             stake_value == stakes[staker_address]
             r == retire_recipient(self, staker_address, stake_value, retire_time)
         IN IF r.res # "Ok" THEN Err(r.self, r.res)
            ELSE retire_all(r.self, stakes, Tail(order), retire_time,
                            MapPut(retirement_by_address, staker_address,
                                   [stake |-> stake_value, receipt |-> r.receipt]))

DropValidatorReceipt(reward_address, retirement_by_address, retire_time) ==
    [reward_address |-> reward_address,
     retirement_by_address |-> retirement_by_address,
     retire_time |-> retire_time]

(* A drop that also accepts a validator of the active map. *)
drop_validator_from_either_map(self, validator_key, initial_stake) ==
    IF ~contains_key(self.inactive_validators_by_key, validator_key)
       /\ ~contains_key(self.active_validators_by_key, validator_key)
    THEN Err(self, "InvalidForRecipient")
    ELSE LET validator == IF contains_key(self.inactive_validators_by_key, validator_key)
                          THEN self.inactive_validators_by_key[validator_key].validator
                          ELSE self.active_validators_by_key[validator_key]
             diff == balance_sub(self.balance, self.arc[validator].balance)
         IN IF ~diff.ok THEN Err(self, "InsufficientFunds")
            ELSE Ok([self EXCEPT
                        !.balance = diff.val,
                        !.inactive_validators_by_key = MapRemove(@, validator_key),
                        !.active_validators_by_key = MapRemove(@, validator_key)],
                    None)

drop_validator(self, validator_key, initial_stake) ==
    IF ~contains_key(self.inactive_validators_by_key, validator_key)
    THEN Err(self, "InvalidForRecipient")
    ELSE LET inactive_validator == self.inactive_validators_by_key[validator_key]
             validator_locked == self.arc[inactive_validator.validator]
             removed == [self EXCEPT !.inactive_validators_by_key = MapRemove(@, validator_key)]
             diff == balance_sub(self.balance, validator_locked.balance)
         IN IF ~diff.ok THEN Err(removed, "InsufficientFunds")
            ELSE LET r == retire_all([removed EXCEPT !.balance = diff.val],
                                     validator_locked.active_stake_by_address,
                                     Ascending(DOMAIN validator_locked.active_stake_by_address),
                                     inactive_validator.retire_time, EmptyMap)
                 IN IF r.res # "Ok" THEN r
                    ELSE Ok(r.self,
                            Some(DropValidatorReceipt(validator_locked.reward_address,
                                                      r.receipt.val,
                                                      inactive_validator.retire_time)))

(* The loop of revert_drop_validator: undo the retirements in the receipt's *)
(* (ascending) order, collecting the stakes and their total.                *)
RECURSIVE revert_retire_all(_, _, _, _, _)
revert_retire_all(self, retirement_by_address, order, active_stake_by_address, total_value) ==
    IF order = <<>>
    THEN [self |-> self, res |-> "Ok",
          active_stake_by_address |-> active_stake_by_address, total_value |-> total_value]
    ELSE LET staker_address == Head(order)
             e == retirement_by_address[staker_address]
             r == revert_retire_recipient(self, staker_address, e.stake, e.receipt)
         IN IF r.res # "Ok"
            THEN [self |-> r.self, res |-> r.res,
                  active_stake_by_address |-> active_stake_by_address,
                  total_value |-> total_value]
            ELSE revert_retire_all(r.self, retirement_by_address, Tail(order),
                                   MapPut(active_stake_by_address, staker_address, e.stake),
                                   total_value + e.stake)

revert_drop_validator(self, validator_key, initial_stake, receipt) ==
    LET l == revert_retire_all(self, receipt.retirement_by_address,
                               Ascending(DOMAIN receipt.retirement_by_address),
                               EmptyMap, initial_stake)
    IN IF l.res # "Ok" THEN Err(l.self, l.res)
       ELSE LET sum == balance_add(l.self.balance, l.total_value) IN
            IF ~sum.ok THEN Err(l.self, "ArithmeticOverflow")
            ELSE LET validator == ArcNew(l.self) IN
                 Ok([l.self EXCEPT
                        !.balance = sum.val,
                        !.arc = MapPut(@, validator,
                                       Validator(l.total_value, receipt.reward_address,
                                                 validator_key, l.active_stake_by_address)),
                        !.inactive_validators_by_key =
                            MapPut(@, validator_key,
                                   [validator |-> validator,
                                    retire_time |-> receipt.retire_time])],
                    None)

InactiveValidatorReceipt(t) == [retire_time |-> t]

retire_validator(self, validator_key, height) ==
    IF ~contains_key(self.active_validators_by_key, validator_key)
    THEN Err(self, "InvalidForRecipient")
    ELSE LET validator == self.active_validators_by_key[validator_key] IN
         Ok([self EXCEPT
                !.active_validators_by_key = MapRemove(@, validator_key),
                !.active_validators_sorted = sorted_remove(self.arc, @, validator),
                !.inactive_validators_by_key =
                    MapPut(@, validator_key,
                           [validator |-> validator, retire_time |-> height])],
            None)

reactivate_validator(self, validator_key) ==
    IF ~contains_key(self.inactive_validators_by_key, validator_key)
    THEN Err(self, "InvalidForRecipient")
    ELSE LET inactive_validator == self.inactive_validators_by_key[validator_key] IN
         Ok([self EXCEPT
                !.inactive_validators_by_key = MapRemove(@, validator_key),
                !.active_validators_sorted =
                    sorted_insert(self.arc, @, inactive_validator.validator),
                !.active_validators_by_key =
                    MapPut(@, validator_key, inactive_validator.validator)],
            Some(InactiveValidatorReceipt(inactive_validator.retire_time)))

revert_retire_validator(self, validator_key) ==
    LET r == reactivate_validator(self, validator_key) IN [r EXCEPT !.receipt = None]

revert_reactivate_validator(self, validator_key, receipt) ==
    retire_validator(self, validator_key, receipt.retire_time)

UnparkReceipt(current_epoch, previous_epoch) ==
    [current_epoch |-> current_epoch, previous_epoch |-> previous_epoch]

(* An unpark that clears only the current epoch's parking set. *)
unpark_validator_current_only(self, validator_key) ==
    LET current_epoch == validator_key \in self.current_epoch_parking
        previous_epoch == validator_key \in self.previous_epoch_parking
    IN IF ~current_epoch /\ ~previous_epoch THEN Err(self, "InvalidForRecipient")
       ELSE Ok([self EXCEPT !.current_epoch_parking = @ \ {validator_key}],
               Some(UnparkReceipt(current_epoch, previous_epoch)))

unpark_validator(self, validator_key) ==
    LET current_epoch == validator_key \in self.current_epoch_parking
        previous_epoch == validator_key \in self.previous_epoch_parking
    IN IF ~current_epoch /\ ~previous_epoch THEN Err(self, "InvalidForRecipient")
       ELSE Ok([self EXCEPT !.current_epoch_parking = @ \ {validator_key},
                            !.previous_epoch_parking = @ \ {validator_key}],
               Some(UnparkReceipt(current_epoch, previous_epoch)))

revert_unpark_validator(self, validator_key, receipt) ==
    Ok([self EXCEPT
           !.current_epoch_parking =
               IF receipt.current_epoch THEN @ \cup {validator_key} ELSE @,
           !.previous_epoch_parking =
               IF receipt.previous_epoch THEN @ \cup {validator_key} ELSE @],
       None)

----------------------------------------------------------------------------
(* Policy: epochs and cool-down delays. *)
EPOCH_LENGTH == 2
UNSTAKING_DELAY == 1
DROP_DELAY == 1

(* policy::macro_block_after: the first macro block at or after a height. *)
macro_block_after(height) == ((height + EPOCH_LENGTH - 1) \div EPOCH_LENGTH) * EPOCH_LENGTH

(* Account::balance_sufficient *)
balance_sufficient(have, needed) == have >= needed

----------------------------------------------------------------------------
(* Outgoing transactions: actions/mod.rs *)

(* check_outgoing_transaction, sender != recipient (Unstake). *)
check_outgoing_transaction(self, staker_address, total_value, height) ==
    IF ~contains_key(self.inactive_stake_by_address, staker_address)
    THEN "InvalidForSender"
    ELSE LET inactive_stake == self.inactive_stake_by_address[staker_address] IN
         IF height < macro_block_after(inactive_stake.retire_time) + UNSTAKING_DELAY
         THEN "InvalidForSender"
         ELSE IF ~balance_sufficient(inactive_stake.balance, total_value)
         THEN "InsufficientFunds"
         ELSE "Ok"

(* commit_outgoing_transaction, sender != recipient (Unstake). *)
commit_outgoing_transaction(self, staker_address, total_value, height) ==
    LET c == check_outgoing_transaction(self, staker_address, total_value, height) IN
    IF c # "Ok" THEN Err(self, c) ELSE unstake(self, staker_address, total_value)

(* revert_incoming_transaction, sender = recipient: the self-transaction    *)
(* types.  An Unpark needs its receipt.                                     *)
revert_incoming_transaction(self, ty, signer, value, receipt) ==
    IF ty = "RetireStake" THEN revert_retire_recipient(self, signer, value, receipt)
    ELSE IF ~receipt.some THEN Err(self, "InvalidReceipt")
    ELSE revert_unpark_validator(self, signer, receipt.val)

(* The static checks the comments of reactivate_sender and drop_validator   *)
(* rely on ("already done in `check` functions").                           *)
check_reactivate(self, staker_address, value) ==
    contains_key(self.inactive_stake_by_address, staker_address)
        => balance_sufficient(self.inactive_stake_by_address[staker_address].balance, value)

check_drop(self, validator_key, initial_stake, height) ==
    contains_key(self.inactive_validators_by_key, validator_key)
        => LET inactive_validator == self.inactive_validators_by_key[validator_key]
               v == self.arc[inactive_validator.validator]
           IN /\ height >= macro_block_after(inactive_validator.retire_time) + DROP_DELAY
              /\ v.balance = initial_stake + MapSum(v.active_stake_by_address)

----------------------------------------------------------------------------
(* Inherents: actions/mod.rs *)

(* Address::SIZE, in units of one identifier. *)
ADDRESS_SIZE == 1

Inherent(ty, value, data) == [ty |-> ty, value |-> value, data |-> data]
SlashReceipt(newly_slashed) == [newly_slashed |-> newly_slashed]

(* The Slash target must exist in the contract. *)
slash_target_exists(self, validator_key) ==
    \/ contains_key(self.active_validators_by_key, validator_key)
    \/ contains_key(self.inactive_validators_by_key, validator_key)

(* A check that does not look at the inherent's value. *)
check_inherent_any_value(self, inherent) ==
    IF inherent.ty = "Slash"
    THEN IF Len(inherent.data) # ADDRESS_SIZE THEN "InvalidInherent"
         ELSE IF ~slash_target_exists(self, inherent.data[1]) THEN "InvalidInherent"
         ELSE "Ok"
    ELSE IF inherent.ty = "FinalizeEpoch"
    THEN IF inherent.data # <<>> THEN "InvalidInherent" ELSE "Ok"
    ELSE "InvalidForTarget"

check_inherent(self, inherent) ==
    IF inherent.value # 0 THEN "InvalidInherent"
    ELSE IF inherent.ty = "Slash"
    THEN IF Len(inherent.data) # ADDRESS_SIZE THEN "InvalidInherent"
         ELSE IF ~slash_target_exists(self, inherent.data[1]) THEN "InvalidInherent"
         ELSE "Ok"
    ELSE IF inherent.ty = "FinalizeEpoch"
    THEN IF inherent.data # <<>> THEN "InvalidInherent" ELSE "Ok"
    ELSE "InvalidForTarget"

(* get_active_balance of a parked validator. *)
get_active_balance(self, validator_key) ==
    IF contains_key(self.active_validators_by_key, validator_key)
    THEN self.arc[self.active_validators_by_key[validator_key]].balance
    ELSE 0

(* FinalizeEpoch: retire what was parked for a whole epoch, in the          *)
(* iteration order of the old HashSet.                                      *)
RECURSIVE sweep(_, _, _)
sweep(self, order, height) ==
    IF order = <<>> THEN Ok(self, None)
    ELSE LET validator_key == Head(order) IN
         IF get_active_balance(self, validator_key) > 0
         THEN LET r == retire_validator(self, validator_key, height) IN
              IF r.res # "Ok" THEN r ELSE sweep(r.self, Tail(order), height)
         ELSE sweep(self, Tail(order), height)

(* A FinalizeEpoch that empties both parking sets instead of rotating them. *)
commit_inherent_without_rotation(self, inherent, height, order) ==
    LET c == check_inherent(self, inherent) IN
    IF c # "Ok" THEN Err(self, c)
    ELSE IF inherent.ty = "Slash"
    THEN LET validator_key == inherent.data[1] IN
         Ok([self EXCEPT !.current_epoch_parking = @ \cup {validator_key}],
            Some(SlashReceipt(validator_key \notin self.current_epoch_parking)))
    ELSE sweep([self EXCEPT !.current_epoch_parking = {},
                            !.previous_epoch_parking = {}],
               order, height)

commit_inherent(self, inherent, height, order) ==
    LET c == check_inherent(self, inherent) IN
    IF c # "Ok" THEN Err(self, c)
    ELSE IF inherent.ty = "Slash"
    THEN LET validator_key == inherent.data[1] IN
         Ok([self EXCEPT !.current_epoch_parking = @ \cup {validator_key}],
            Some(SlashReceipt(validator_key \notin self.current_epoch_parking)))
    ELSE sweep([self EXCEPT !.current_epoch_parking = {},
                            !.previous_epoch_parking = self.current_epoch_parking],
               order, height)

(* A Slash revert that unparks the key whatever the receipt says. *)
revert_inherent_always_unpark(self, inherent, receipt) ==
    IF inherent.ty = "Slash"
    THEN IF ~receipt.some THEN Err(self, "InvalidReceipt")
         ELSE Ok([self EXCEPT !.current_epoch_parking = @ \ {inherent.data[1]}], None)
    ELSE Err(self, "InvalidForTarget")

(* A revert that accepts a FinalizeEpoch inherent. *)
revert_inherent_accepting_finalize(self, inherent, receipt) ==
    IF inherent.ty = "Slash"
    THEN IF ~receipt.some THEN Err(self, "InvalidReceipt")
         ELSE IF receipt.val.newly_slashed
         THEN IF inherent.data[1] \in self.current_epoch_parking
              THEN Ok([self EXCEPT !.current_epoch_parking = @ \ {inherent.data[1]}], None)
              ELSE Err(self, "InvalidInherent")
         ELSE Ok(self, None)
    ELSE Ok(self, None)

revert_inherent(self, inherent, receipt) ==
    IF inherent.ty = "Slash"
    THEN IF ~receipt.some THEN Err(self, "InvalidReceipt")
         ELSE IF receipt.val.newly_slashed
         THEN IF inherent.data[1] \in self.current_epoch_parking
              THEN Ok([self EXCEPT !.current_epoch_parking = @ \ {inherent.data[1]}], None)
              ELSE Err(self, "InvalidInherent")
         ELSE Ok(self, None)
    ELSE Err(self, "InvalidForTarget")

----------------------------------------------------------------------------
(* The state machine. *)

(* The latest operation that succeeded or changed the contract: its name    *)
(* ("revert_" + name for an inverse) and its result.  An operation that is  *)
(* rejected and changes nothing leaves no trace.                            *)
Last(op, res) == [op |-> op, res |-> res]
NoOp == Last("none", "Ok")

(* StakingContract::default *)
Default ==
    [balance |-> 0, arc |-> EmptyMap,
     active_validators_sorted |-> <<>>,
     active_validators_by_key |-> EmptyMap,
     inactive_validators_by_key |-> EmptyMap,
     current_epoch_parking |-> {},
     previous_epoch_parking |-> {},
     inactive_stake_by_address |-> EmptyMap]

(* The genesis contract: every GenesisStake of the configuration is staked  *)
(* to its validator, which is created first if it is new.                   *)
GenesisStake(staker_address, reward_address, b, validator_key) ==
    [staker_address |-> staker_address, reward_address |-> reward_address,
     balance |-> b, validator_key |-> validator_key]

RECURSIVE genesis(_, _)
genesis(self, stakes) ==
    IF stakes = <<>> THEN self
    ELSE LET g == Head(stakes)
             c == IF get_validator(self, g.validator_key) = NoArc
                  THEN create_validator(self, g.validator_key, g.reward_address, 0).self
                  ELSE self
         IN genesis(stake(c, g.staker_address, g.balance, g.validator_key).self, Tail(stakes))

Init ==
    \E stakes \in {<<>>,
                    <<GenesisStake(1, 1, 1, 1)>>,
                    <<GenesisStake(1, 1, 1, 1), GenesisStake(2, 1, 2, 1)>>} :
        LET self == genesis(Default, stakes) IN
        /\ balance = self.balance
        /\ arc = self.arc
        /\ active_validators_sorted = self.active_validators_sorted
        /\ active_validators_by_key = self.active_validators_by_key
        /\ inactive_validators_by_key = self.inactive_validators_by_key
        /\ current_epoch_parking = self.current_epoch_parking
        /\ previous_epoch_parking = self.previous_epoch_parking
        /\ inactive_stake_by_address = self.inactive_stake_by_address
        /\ created = DOMAIN self.active_validators_by_key
        /\ block_height = 0
        /\ log = <<>>
        /\ last = NoOp
        /\ steps = 0
        /\ budget = MaxSteps

SetSelf(self) ==
    /\ balance' = self.balance
    /\ arc' = self.arc
    /\ active_validators_sorted' = self.active_validators_sorted
    /\ active_validators_by_key' = self.active_validators_by_key
    /\ inactive_validators_by_key' = self.inactive_validators_by_key
    /\ current_epoch_parking' = self.current_epoch_parking
    /\ previous_epoch_parking' = self.previous_epoch_parking
    /\ inactive_stake_by_address' = self.inactive_stake_by_address

Step(op, r) ==
    /\ steps < budget
    /\ UNCHANGED budget
    /\ steps' = IF r.res = "Ok" \/ r.self # Self THEN steps + 1 ELSE steps
    /\ last' = IF r.res = "Ok" \/ r.self # Self THEN Last(op, r.res) ELSE last
    /\ SetSelf(DropUnreferenced(r.self))

(* A block applies an operation: an Ok commit is logged with its receipt,   *)
(* a rejected one leaves the contract as the failed call left it.           *)
(* The log holds the newest operations, at most MaxLog of them, that were   *)
(* committed successfully one after the other with nothing in between:      *)
(* each entry's pre-state is the state the entry before it produced, and    *)
(* the head produced the present state.  A change outside such a sequence   *)
(* (a failed call that altered the contract, an inverse that did not        *)
(* restore the pre-state) starts a new log.                                 *)
Commit(op, args, r) ==
    /\ Step(op, r)
    /\ log' = IF r.res = "Ok"
              THEN LET entries == <<[op |-> op, args |-> args, receipt |-> r.receipt,
                                     pre |-> View(Self), height |-> block_height]>> \o log
                   IN SubSeq(entries, 1, IF Len(entries) < MaxLog THEN Len(entries) ELSE MaxLog)
              ELSE IF r.self # Self THEN <<>> ELSE log
    /\ created' = IF r.res # "Ok" THEN created
                  ELSE IF op = "create_validator" THEN created \cup {args.k}
                  ELSE IF op = "drop_validator" THEN created \ {args.k}
                  ELSE created
    /\ UNCHANGED block_height

(* Stake is also the recipient half of a staker's re-activation            *)
(* (reactivate_recipient is stake).                                         *)
(* stake only ever raises a validator's balance: the model stops at a cap. *)
BelowCap(validator_key, value) ==
    LET validator == get_validator(Self, validator_key) IN
    validator # NoArc => arc[validator].balance + value <= MaxValidatorBalance

StakeIn(addresses, keys) ==
    \E a \in addresses, v \in Coin, k \in keys :
        /\ BelowCap(k, v)
        /\ Commit("stake", [a |-> a, v |-> v, k |-> k], stake(Self, a, v, k))

RetireSenderIn(addresses, keys) ==
    \E a \in addresses, v \in Coin, k \in keys :
        Commit("retire_sender", [a |-> a, v |-> v, k |-> k], retire_sender(Self, a, v, k))

RetireRecipientIn(addresses, keys) ==
    \E a \in addresses, v \in Coin :
        Commit("retire_recipient", [a |-> a, v |-> v],
               retire_recipient(Self, a, v, block_height))

ReactivateSenderIn(addresses, keys) ==
    \E a \in addresses, v \in Coin :
        /\ check_reactivate(Self, a, v)
        /\ Commit("reactivate_sender", [a |-> a, v |-> v],
                  reactivate_sender(Self, a, v, block_height))

UnstakeIn(addresses, keys) ==
    \E a \in addresses, v \in Coin :
        Commit("unstake", [a |-> a, v |-> v],
               commit_outgoing_transaction(Self, a, v, block_height))

CreateValidatorIn(addresses, keys) ==
    \E k \in keys, r \in addresses, v \in Coin :
        /\ FreeArcs(Self) # {}
        /\ Commit("create_validator", [k |-> k, r |-> r, v |-> v],
                  create_validator(Self, k, r, v))

UpdateValidatorIn(addresses, keys) ==
    \E old \in keys, new \in keys, r \in addresses :
        Commit("update_validator", [old |-> old, new |-> new, r |-> r],
               update_validator(Self, old, new, r))

RetireValidatorIn(addresses, keys) ==
    \E k \in keys :
        Commit("retire_validator", [k |-> k], retire_validator(Self, k, block_height))

ReactivateValidatorIn(addresses, keys) ==
    \E k \in keys :
        Commit("reactivate_validator", [k |-> k], reactivate_validator(Self, k))

DropValidatorIn(addresses, keys) ==
    \E k \in keys, v \in Coin :
        /\ check_drop(Self, k, v, block_height)
        /\ Commit("drop_validator", [k |-> k, v |-> v], drop_validator(Self, k, v))

UnparkValidatorIn(addresses, keys) ==
    \E k \in keys :
        Commit("unpark_validator", [k |-> k], unpark_validator(Self, k))

SlashIn(addresses, keys) ==
    \E value \in {0, 1}, data \in {<<>>} \cup {<<k>> : k \in keys} :
        LET inherent == Inherent("Slash", value, data) IN
        Commit("slash", [inherent |-> inherent],
               commit_inherent(Self, inherent, block_height, <<>>))

Reward ==
    \E value \in {0, 1} :
        LET inherent == Inherent("Reward", value, <<>>) IN
        Commit("reward", [inherent |-> inherent],
               commit_inherent(Self, inherent, block_height, <<>>))

Orders(S) ==
    {o \in [1 .. Cardinality(S) -> S] : \A i, j \in 1 .. Cardinality(S) : o[i] = o[j] => i = j}

(* A finalized epoch cannot be reverted, nor can anything before it. *)
FinalizeEpoch ==
    \E value \in {0, 1}, data \in {<<>>, <<1>>}, order \in Orders(previous_epoch_parking) :
        LET inherent == Inherent("FinalizeEpoch", value, data)
            r == commit_inherent(Self, inherent, block_height, order)
        IN /\ Step("finalize_epoch", r)
           /\ log' = IF r.res = "Ok" \/ r.self # Self THEN <<>> ELSE log
           /\ UNCHANGED <<block_height, created>>

RevertFinalizeEpoch ==
    \E receipt \in {None, Some(SlashReceipt(TRUE))} :
        LET inherent == Inherent("FinalizeEpoch", 0, <<>>)
            r == revert_inherent(Self, inherent, receipt)
        IN /\ last.op = "finalize_epoch" /\ last.res = "Ok"
           /\ Step("revert_finalize_epoch", r)
           /\ UNCHANGED <<log, block_height, created>>

(* The inverse of a logged operation, given the receipt its commit returned. *)
RevertOp(self, e) ==
    CASE e.op = "stake" -> revert_stake(self, e.args.a, e.args.v, e.args.k)
      [] e.op = "retire_sender" -> revert_retire_sender(self, e.args.a, e.args.v, e.args.k)
      [] e.op = "retire_recipient" ->
            revert_incoming_transaction(self, "RetireStake", e.args.a, e.args.v, e.receipt)
      [] e.op = "reactivate_sender" ->
            revert_reactivate_sender(self, e.args.a, e.args.v, e.receipt.val)
      [] e.op = "unstake" -> revert_unstake(self, e.args.a, e.args.v, e.receipt)
      [] e.op = "create_validator" ->
            revert_create_validator(self, e.args.k, e.args.r, e.args.v)
      [] e.op = "update_validator" ->
            revert_update_validator(self, e.args.old, e.args.new, e.receipt.val)
      [] e.op = "retire_validator" -> revert_retire_validator(self, e.args.k)
      [] e.op = "reactivate_validator" ->
            revert_reactivate_validator(self, e.args.k, e.receipt.val)
      [] e.op = "drop_validator" ->
            revert_drop_validator(self, e.args.k, e.args.v, e.receipt.val)
      [] e.op = "unpark_validator" ->
            revert_incoming_transaction(self, "Unpark", e.args.k, 0, e.receipt)
      [] e.op = "slash" -> revert_inherent(self, e.args.inherent, e.receipt)

(* A reorganisation reverts the newest logged operation. *)
Revert ==
    /\ log # <<>>
    /\ LET e == Head(log)
           r == RevertOp(Self, e)
       IN /\ (e.op = "drop_validator" => FreeArcs(Self) # {})
          /\ Step("revert_" \o e.op, r)
          /\ block_height' = e.height
          /\ created' = IF r.res # "Ok" THEN created
                        ELSE IF e.op = "create_validator" THEN created \ {e.args.k}
                        ELSE IF e.op = "drop_validator" THEN created \cup {e.args.k}
                        ELSE created
          /\ log' = IF r.res = "Ok" /\ View(DropUnreferenced(r.self)) = e.pre
                    THEN Tail(log) ELSE <<>>

NextBlock ==
    /\ block_height < MaxHeight
    /\ steps < budget
    /\ steps' = steps + 1
    /\ last' = NoOp
    /\ block_height' = block_height + 1
    /\ UNCHANGED <<balance, arc, active_validators_sorted, active_validators_by_key,
                   inactive_validators_by_key, current_epoch_parking,
                   previous_epoch_parking, inactive_stake_by_address, log, created,
                   budget>>

Next ==
    \/ StakeIn(Address, BlsPublicKey)
    \/ RetireSenderIn(Address, BlsPublicKey)
    \/ RetireRecipientIn(Address, BlsPublicKey)
    \/ ReactivateSenderIn(Address, BlsPublicKey)
    \/ UnstakeIn(Address, BlsPublicKey)
    \/ CreateValidatorIn(Address, BlsPublicKey)
    \/ UpdateValidatorIn(Address, BlsPublicKey)
    \/ RetireValidatorIn(Address, BlsPublicKey)
    \/ ReactivateValidatorIn(Address, BlsPublicKey)
    \/ DropValidatorIn(Address, BlsPublicKey)
    \/ UnparkValidatorIn(Address, BlsPublicKey)
    \/ SlashIn(Address, BlsPublicKey)
    \/ Reward
    \/ FinalizeEpoch
    \/ RevertFinalizeEpoch
    \/ Revert
    \/ NextBlock

Spec == Init /\ [][Next]_vars

(* Longer behaviours of a narrower contract: the genesis contract with one  *)
(* stake, and operations that name one validator key and one staker        *)
(* address only.                                                            *)
NarrowKeys == {1}
NarrowAddresses == {1}

DeepInit ==
    LET self == genesis(Default, <<GenesisStake(1, 1, 1, 1)>>) IN
    /\ balance = self.balance
    /\ arc = self.arc
    /\ active_validators_sorted = self.active_validators_sorted
    /\ active_validators_by_key = self.active_validators_by_key
    /\ inactive_validators_by_key = self.inactive_validators_by_key
    /\ current_epoch_parking = self.current_epoch_parking
    /\ previous_epoch_parking = self.previous_epoch_parking
    /\ inactive_stake_by_address = self.inactive_stake_by_address
    /\ created = DOMAIN self.active_validators_by_key
    /\ block_height = 0
    /\ log = <<>>
    /\ last = NoOp
    /\ steps = 0
    /\ budget = DeepSteps

DeepNext ==
    \/ StakeIn(NarrowAddresses, NarrowKeys)
    \/ RetireSenderIn(NarrowAddresses, NarrowKeys)
    \/ RetireRecipientIn(NarrowAddresses, NarrowKeys)
    \/ ReactivateSenderIn(NarrowAddresses, NarrowKeys)
    \/ UnstakeIn(NarrowAddresses, NarrowKeys)
    \/ CreateValidatorIn(NarrowAddresses, NarrowKeys)
    \/ UpdateValidatorIn(NarrowAddresses, NarrowKeys)
    \/ RetireValidatorIn(NarrowAddresses, NarrowKeys)
    \/ ReactivateValidatorIn(NarrowAddresses, NarrowKeys)
    \/ DropValidatorIn(NarrowAddresses, NarrowKeys)
    \/ UnparkValidatorIn(NarrowAddresses, NarrowKeys)
    \/ SlashIn(NarrowAddresses, NarrowKeys)
    \/ Reward
    \/ FinalizeEpoch
    \/ RevertFinalizeEpoch
    \/ Revert
    \/ NextBlock

DeepSpec == DeepInit /\ [][DeepNext]_vars

----------------------------------------------------------------------------
(* Properties. *)

ActiveValidators(self) ==
    {self.active_validators_by_key[k] : k \in DOMAIN self.active_validators_by_key}
InactiveValidators(self) ==
    {self.inactive_validators_by_key[k].validator : k \in DOMAIN self.inactive_validators_by_key}
MapValidators(self) == ActiveValidators(self) \cup InactiveValidators(self)

ValidatorBalances(self) ==
    MapSum([h \in MapValidators(self) |-> self.arc[h].balance])
InactiveStakeBalances(self) ==
    MapSum([a \in DOMAIN self.inactive_stake_by_address |->
                self.inactive_stake_by_address[a].balance])

(* Reverts the logged operations, newest first, each with its receipt. *)
RECURSIVE RevertAll(_, _)
RevertAll(self, entries) ==
    IF entries = <<>> THEN Ok(self, None)
    ELSE LET r == RevertOp(self, Head(entries)) IN
         IF r.res # "Ok" THEN r
         ELSE RevertAll(DropUnreferenced(r.self), Tail(entries))

(* C1: reverting a sequence of successfully committed operations in         *)
(* reverse order, each with its own receipt, succeeds and restores the      *)
(* state the sequence started from, in every field.                         *)
C1_ReorgLaw ==
    log # <<>> =>
        LET r == RevertAll(Self, log) IN
        r.res = "Ok" /\ View(r.self) = log[Len(log)].pre

(* C2: after every successful commit or revert the contract balance equals  *)
(* the sum of all validators' balances (active and inactive) plus the sum   *)
(* of all inactive-stake balances.                                          *)
C2_MasterBalance ==
    last.res = "Ok" =>
        balance = ValidatorBalances(Self) + InactiveStakeBalances(Self)

(* C3: whenever stake(a, v, K) succeeds, revert_stake(a, v, K) succeeds     *)
(* and restores the contract exactly, the validator's balance and stake     *)
(* map included.                                                            *)
C3_StakeRevertSymmetry ==
    \A a \in Address, v \in Coin, k \in BlsPublicKey :
        LET r == stake(Self, a, v, k) IN
        r.res = "Ok" =>
            LET u == revert_stake(r.self, a, v, k) IN
            u.res = "Ok" /\ View(u.self) = View(Self)

(* C4: stake(a, v, K) on a validator K of the active or inactive map raises *)
(* the contract balance, the validator's balance and its stake entry for a  *)
(* (created if absent) by exactly v and changes nothing else; it succeeds   *)
(* unless the contract balance would overflow, when it returns              *)
(* ArithmeticOverflow and changes nothing; with K in neither map it returns *)
(* InvalidForRecipient and changes nothing.                                 *)
C4_StakeEffect ==
    \A a \in Address, v \in Coin, k \in BlsPublicKey :
        LET r == stake(Self, a, v, k)
            validator == get_validator(Self, k)
        IN IF validator = NoArc
           THEN r.res = "InvalidForRecipient" /\ r.self = Self
           ELSE LET old == arc[validator]
                    m == old.active_stake_by_address
                    entry == IF a \in DOMAIN m THEN m[a] ELSE 0
                IN /\ (r.res = "Ok") = (balance + v <= MAX_COIN)
                   /\ r.res # "Ok" => r.res = "ArithmeticOverflow" /\ r.self = Self
                   /\ r.res = "Ok" =>
                        /\ r.self.balance = balance + v
                        /\ r.self.arc[validator].balance = old.balance + v
                        /\ DOMAIN r.self.arc[validator].active_stake_by_address
                              = (DOMAIN m) \cup {a}
                        /\ r.self.arc[validator].active_stake_by_address[a] = entry + v
                        /\ \A b \in (DOMAIN m) \ {a} :
                              r.self.arc[validator].active_stake_by_address[b] = m[b]
                        /\ r.self.arc[validator].reward_address = old.reward_address
                        /\ r.self.arc[validator].validator_key = old.validator_key
                        /\ \A h \in (DOMAIN arc) \ {validator} : r.self.arc[h] = arc[h]
                        /\ DOMAIN r.self.arc = DOMAIN arc
                        /\ [r.self EXCEPT !.balance = balance, !.arc = arc] = Self

(* A stake transaction has been committed on a state in which the staker    *)
(* had no entry under the validator, and has taken effect.                  *)
C4_Witness ==
    /\ log # <<>>
    /\ last.op = "stake" /\ last.res = "Ok"
    /\ Head(log).op = "stake"
    /\ Head(log).args.v > 0
    /\ LET e == Head(log)
           before == IF e.args.k \in DOMAIN e.pre.active_validators_by_key
                     THEN e.pre.active_validators_by_key[e.args.k]
                     ELSE e.pre.inactive_validators_by_key[e.args.k].validator
       IN /\ e.args.a \notin DOMAIN before.active_stake_by_address
          /\ balance = e.pre.balance + e.args.v

IsSorted(validators) ==
    \A i, j \in 1 .. Len(validators) :
        i < j => ValidatorCmp(validators[i], validators[j]) = "Less"

(* C5: after every successful commit or revert the sorted set is ordered by *)
(* (balance descending, validator_key ascending) and holds exactly the      *)
(* validators of active_validators_by_key.                                  *)
C5_SortedSet ==
    last.res = "Ok" =>
        /\ IsSorted(View(Self).active_validators_sorted)
        /\ {active_validators_sorted[i] : i \in 1 .. Len(active_validators_sorted)}
              = ActiveValidators(Self)

(* C6: no key is in both validator maps, and every validator created and    *)
(* not dropped is in exactly one of them.                                   *)
C6_MapExclusivity ==
    /\ (DOMAIN active_validators_by_key) \cap (DOMAIN inactive_validators_by_key) = {}
    /\ created = (DOMAIN active_validators_by_key) \cup (DOMAIN inactive_validators_by_key)

(* C7: no two validator records, active or inactive, carry the same         *)
(* validator_key.                                                           *)
C7_KeyUniqueness ==
    \A g, h \in MapValidators(Self) :
        g # h => arc[g].validator_key # arc[h].validator_key

(* C8: every key in either parking set is a key of the active map. *)
C8_ParkingSubset ==
    /\ current_epoch_parking \subseteq DOMAIN active_validators_by_key
    /\ previous_epoch_parking \subseteq DOMAIN active_validators_by_key

(* C9: after every successful commit or revert no active stake entry of any *)
(* validator and no inactive stake entry has balance zero.                  *)
C9_NoZeroEntries ==
    last.res = "Ok" =>
        /\ \A h \in MapValidators(Self) :
              \A a \in DOMAIN arc[h].active_stake_by_address :
                  arc[h].active_stake_by_address[a] # 0
        /\ \A a \in DOMAIN inactive_stake_by_address :
              inactive_stake_by_address[a].balance # 0

BalanceIsStakeSum(self, h) ==
    self.arc[h].balance = MapSum(self.arc[h].active_stake_by_address)

(* C10: each validator's balance equals the sum of its active stakes. *)
C10_ValidatorBalance ==
    \A h \in MapValidators(Self) : BalanceIsStakeSum(Self, h)

(* Every commit the contract can be asked for in the present state, at the  *)
(* present height, with the result it returns and the contract it leaves.   *)
Outcome(r) == [res |-> r.res, self |-> r.self]

CommitOutcomes ==
    {Outcome(stake(Self, a, v, k)) : a \in Address, v \in Coin, k \in BlsPublicKey}
    \cup {Outcome(retire_sender(Self, a, v, k)) : a \in Address, v \in Coin, k \in BlsPublicKey}
    \cup {Outcome(retire_recipient(Self, a, v, block_height)) : a \in Address, v \in Coin}
    \cup {Outcome(reactivate_sender(Self, x[1], x[2], block_height)) :
              x \in {y \in Address \X Coin : check_reactivate(Self, y[1], y[2])}}
    \cup {Outcome(commit_outgoing_transaction(Self, a, v, block_height)) :
              a \in Address, v \in Coin}
    \cup {Outcome(create_validator(Self, k, a, v)) : k \in BlsPublicKey, a \in Address, v \in Coin}
    \cup {Outcome(update_validator(Self, k, n, a)) :
              k \in BlsPublicKey, n \in BlsPublicKey, a \in Address}
    \cup {Outcome(retire_validator(Self, k, block_height)) : k \in BlsPublicKey}
    \cup {Outcome(reactivate_validator(Self, k)) : k \in BlsPublicKey}
    \cup {Outcome(drop_validator(Self, x[1], x[2])) :
              x \in {y \in BlsPublicKey \X Coin : check_drop(Self, y[1], y[2], block_height)}}
    \cup {Outcome(unpark_validator(Self, k)) : k \in BlsPublicKey}
    \cup {Outcome(commit_inherent(Self, Inherent(ty, value, data), block_height, order)) :
              ty \in {"Slash", "FinalizeEpoch", "Reward"}, value \in {0, 1},
              data \in {<<>>} \cup {<<k>> : k \in BlsPublicKey},
              order \in Orders(previous_epoch_parking)}

(* C11: whenever a commit returns an error, the contract is as it was       *)
(* before the call.                                                         *)
C11_FailFastAtomicity ==
    \A r \in CommitOutcomes : r.res # "Ok" => r.self = Self

(* C12: an Unstake of signer a for total value t at the present height      *)
(* succeeds only if a has an inactive stake, the unstaking delay has        *)
(* elapsed and the inactive balance covers t; with no entry, or before the  *)
(* delay has elapsed, it returns InvalidForSender; and whenever it fails    *)
(* the contract is unchanged.                                               *)
C12_UnstakeCooldown ==
    \A a \in Address, t \in Coin :
        LET r == commit_outgoing_transaction(Self, a, t, block_height)
            m == inactive_stake_by_address
            elapsed == block_height >= macro_block_after(m[a].retire_time) + UNSTAKING_DELAY
        IN /\ r.res = "Ok" => a \in DOMAIN m /\ elapsed /\ m[a].balance >= t
           /\ (a \notin DOMAIN m \/ ~elapsed) => r.res = "InvalidForSender"
           /\ r.res # "Ok" => r.self = Self

(* C13: unstake(a, t) on an inactive entry (b, rt) with b > t leaves         *)
(* (b - t, rt), returns no receipt and lowers the contract balance by t;    *)
(* with b = t it removes the entry and returns a receipt carrying rt; in    *)
(* both cases it changes nothing else, and revert_unstake(a, t, receipt)    *)
(* restores the contract exactly.                                           *)
C13_UnstakeEffect ==
    \A a \in DOMAIN inactive_stake_by_address, t \in Coin :
        LET m == inactive_stake_by_address
            r == unstake(Self, a, t)
            u == revert_unstake(r.self, a, t, r.receipt)
        IN m[a].balance >= t =>
            /\ r.res = "Ok"
            /\ r.self.balance = balance - t
            /\ IF m[a].balance > t
               THEN /\ r.self.inactive_stake_by_address =
                          MapPut(m, a, InactiveStake(m[a].balance - t, m[a].retire_time))
                    /\ r.receipt = None
               ELSE /\ r.self.inactive_stake_by_address = MapRemove(m, a)
                    /\ r.receipt = Some(InactiveStakeReceipt(m[a].retire_time))
            /\ [r.self EXCEPT !.balance = balance, !.inactive_stake_by_address = m] = Self
            /\ u.res = "Ok"
            /\ u.self = Self

(* C14: retire_recipient(a, v, h), unless the balance would overflow, adds   *)
(* v to a's inactive balance (creating the entry if absent), sets its       *)
(* retire_time to h, adds v to the contract balance, changes nothing else,  *)
(* and returns a receipt with the prior retire_time exactly if a had an     *)
(* entry; revert_retire_recipient(a, v, receipt) then succeeds and restores *)
(* the contract exactly.                                                    *)
C14_RetireRecipient ==
    \A a \in Address, v \in Coin :
        LET m == inactive_stake_by_address
            r == retire_recipient(Self, a, v, block_height)
            u == revert_retire_recipient(r.self, a, v, r.receipt)
            prior == IF a \in DOMAIN m THEN m[a].balance ELSE 0
        IN /\ r.res # "Ok" => r.res = "ArithmeticOverflow"
           /\ r.res = "Ok" =>
                /\ r.self.balance = balance + v
                /\ r.self.inactive_stake_by_address =
                      MapPut(m, a, InactiveStake(prior + v, block_height))
                /\ r.receipt = IF a \in DOMAIN m
                               THEN Some(InactiveStakeReceipt(m[a].retire_time))
                               ELSE None
                /\ [r.self EXCEPT !.balance = balance, !.inactive_stake_by_address = m] = Self
                /\ u.res = "Ok"
                /\ u.self = Self

(* C15: reactivate_sender(a, v, h) on an inactive entry (b, rt) with v <= b  *)
(* succeeds, leaves a an entry of balance b - v (none when b = v), lowers   *)
(* the contract balance by v, changes nothing else and returns              *)
(* InactiveStakeReceipt{retire_time: rt}; revert_reactivate_sender(a, v,    *)
(* receipt) then succeeds and restores the contract exactly.                *)
C15_ReactivateSender ==
    \A a \in DOMAIN inactive_stake_by_address, v \in Coin :
        LET m == inactive_stake_by_address
            r == reactivate_sender(Self, a, v, block_height)
            u == revert_reactivate_sender(r.self, a, v, r.receipt.val)
            left == r.self.inactive_stake_by_address
        IN v <= m[a].balance =>
            /\ r.res = "Ok"
            /\ r.self.balance = balance - v
            /\ DOMAIN left = IF m[a].balance = v THEN (DOMAIN m) \ {a} ELSE DOMAIN m
            /\ \A x \in (DOMAIN left) \ {a} : left[x] = m[x]
            /\ a \in DOMAIN left => left[a].balance = m[a].balance - v
            /\ r.receipt = Some(InactiveStakeReceipt(m[a].retire_time))
            /\ [r.self EXCEPT !.balance = balance, !.inactive_stake_by_address = m] = Self
            /\ u.res = "Ok"
            /\ u.self = Self

(* C16: create_validator(K, r, s) returns InvalidForRecipient and changes    *)
(* nothing if K is in the active or the inactive map; otherwise, unless the *)
(* balance would overflow, it adds one new validator with key K, reward     *)
(* address r, balance s and no stakes to the active map and to the sorted   *)
(* set, raises the contract balance by s and changes nothing else, and      *)
(* revert_create_validator(K, r, s) then succeeds and restores the contract *)
(* exactly.                                                                 *)
C16_CreateValidator ==
    \A k \in BlsPublicKey, reward \in Address, s \in Coin :
        LET c == create_validator(Self, k, reward, s)
            u == revert_create_validator(c.self, k, reward, s)
        IN IF k \in (DOMAIN active_validators_by_key) \cup (DOMAIN inactive_validators_by_key)
           THEN c.res = "InvalidForRecipient" /\ c.self = Self
           ELSE /\ c.res # "Ok" => c.res = "ArithmeticOverflow" /\ c.self = Self
                /\ c.res = "Ok" =>
                     LET h == c.self.active_validators_by_key[k]
                         sorted == c.self.active_validators_sorted
                     IN /\ h \notin DOMAIN arc
                        /\ c.self.arc = MapPut(arc, h, Validator(s, reward, k, EmptyMap))
                        /\ c.self.active_validators_by_key =
                              MapPut(active_validators_by_key, k, h)
                        /\ \E i \in 1 .. Len(sorted) :
                              /\ sorted[i] = h
                              /\ RemoveAt(sorted, i) = active_validators_sorted
                        /\ c.self.balance = balance + s
                        /\ [c.self EXCEPT !.balance = balance, !.arc = arc,
                                          !.active_validators_by_key = active_validators_by_key,
                                          !.active_validators_sorted = active_validators_sorted]
                              = Self
                        /\ u.res = "Ok"
                        /\ DropUnreferenced(u.self) = Self

(* C17: whenever update_validator(old_key, new_key, new_reward) succeeds,    *)
(* revert_update_validator(old_key, new_key, receipt) with the receipt it   *)
(* returned succeeds and restores the contract exactly, the validator's key *)
(* and reward address included.                                             *)
C17_UpdateRevertSymmetry ==
    \A old \in BlsPublicKey, new \in BlsPublicKey, reward \in Address :
        LET r == update_validator(Self, old, new, reward) IN
        r.res = "Ok" =>
            LET u == revert_update_validator(r.self, old, new, r.receipt.val) IN
            u.res = "Ok" /\ u.self = Self

(* C18: retire_validator(K, h) returns InvalidForRecipient and changes       *)
(* nothing if K is not active; otherwise it moves K from the active map and *)
(* the sorted set to the inactive map with retire_time h, changing nothing  *)
(* else, and revert_retire_validator(K) restores the contract exactly.      *)
(* reactivate_validator(K) of an inactive K moves it back to the active map *)
(* and the sorted set and returns a receipt with K's retire_time, and       *)
(* revert_reactivate_validator(K, receipt) restores the contract exactly.   *)
C18_RetireReactivateInverse ==
    /\ \A k \in BlsPublicKey :
          LET r == retire_validator(Self, k, block_height)
              u == revert_retire_validator(r.self, k)
          IN IF k \notin DOMAIN active_validators_by_key
             THEN r.res = "InvalidForRecipient" /\ r.self = Self
             ELSE LET h == active_validators_by_key[k] IN
                  /\ r.res = "Ok"
                  /\ r.self.active_validators_by_key = MapRemove(active_validators_by_key, k)
                  /\ r.self.inactive_validators_by_key =
                        MapPut(inactive_validators_by_key, k,
                               [validator |-> h, retire_time |-> block_height])
                  /\ \E i \in 1 .. Len(active_validators_sorted) :
                        /\ active_validators_sorted[i] = h
                        /\ r.self.active_validators_sorted = RemoveAt(active_validators_sorted, i)
                  /\ [r.self EXCEPT
                         !.active_validators_by_key = active_validators_by_key,
                         !.inactive_validators_by_key = inactive_validators_by_key,
                         !.active_validators_sorted = active_validators_sorted] = Self
                  /\ u.res = "Ok"
                  /\ u.self = Self
    /\ \A k \in DOMAIN inactive_validators_by_key :
          LET r == reactivate_validator(Self, k)
              u == revert_reactivate_validator(r.self, k, r.receipt.val)
              h == inactive_validators_by_key[k].validator
              sorted == r.self.active_validators_sorted
          IN /\ r.res = "Ok"
             /\ r.self.active_validators_by_key = MapPut(active_validators_by_key, k, h)
             /\ r.self.inactive_validators_by_key = MapRemove(inactive_validators_by_key, k)
             /\ \E i \in 1 .. Len(sorted) :
                   /\ sorted[i] = h
                   /\ RemoveAt(sorted, i) = active_validators_sorted
             /\ r.receipt =
                   Some(InactiveValidatorReceipt(inactive_validators_by_key[k].retire_time))
             /\ [r.self EXCEPT
                    !.active_validators_by_key = active_validators_by_key,
                    !.inactive_validators_by_key = inactive_validators_by_key,
                    !.active_validators_sorted = active_validators_sorted] = Self
             /\ u.res = "Ok"
             /\ u.self = Self

C20_DropEffect ==
    \A k \in BlsPublicKey, v \in Coin :
        LET r == drop_validator(Self, k, v) IN
        r.res = "Ok" =>
            LET inactive_validator == inactive_validators_by_key[k]
                validator == arc[inactive_validator.validator]
                stakes == validator.active_stake_by_address
            IN /\ k \notin DOMAIN r.self.active_validators_by_key
               /\ k \notin DOMAIN r.self.inactive_validators_by_key
               /\ \A a \in DOMAIN stakes :
                     /\ a \in DOMAIN r.self.inactive_stake_by_address
                     /\ r.self.inactive_stake_by_address[a].balance =
                           stakes[a] + (IF a \in DOMAIN inactive_stake_by_address
                                        THEN inactive_stake_by_address[a].balance ELSE 0)
                     /\ r.self.inactive_stake_by_address[a].retire_time =
                           inactive_validator.retire_time
               /\ balance - r.self.balance = validator.balance - MapSum(stakes)

(* A drop has succeeded on a validator with a staker that already had an    *)
(* inactive stake.                                                          *)
C20_Witness ==
    /\ last = Last("drop_validator", "Ok")
    /\ log # <<>>
    /\ Head(log).op = "drop_validator"
    /\ LET pre == Head(log).pre
           k == Head(log).args.k
       IN /\ k \in DOMAIN pre.inactive_validators_by_key
          /\ \E a \in DOMAIN pre.inactive_validators_by_key[k].validator.active_stake_by_address :
                /\ pre.inactive_validators_by_key[k].validator.active_stake_by_address[a] > 0
                /\ a \in DOMAIN pre.inactive_stake_by_address

(* C21: whenever a checked drop_validator(K, initial_stake) succeeds with    *)
(* receipt r, revert_drop_validator(K, initial_stake, r) succeeds and        *)
(* restores the pre-drop contract exactly: K inactive with the same          *)
(* retire_time, reward address, balance and stakes, every inactive stake as  *)
(* it was, and the contract balance.                                         *)
C21_DropRevertSymmetry ==
    \A k \in BlsPublicKey, v \in Coin :
        LET r == drop_validator(Self, k, v) IN
        (check_drop(Self, k, v, block_height) /\ r.res = "Ok") =>
            LET u == revert_drop_validator(DropUnreferenced(r.self), k, v, r.receipt.val) IN
            /\ u.res = "Ok"
            /\ View(DropUnreferenced(u.self)) = View(Self)

(* C22: unpark_validator(K) returns InvalidForRecipient and changes nothing *)
(* when K is in neither parking set; otherwise it removes K from both sets, *)
(* changes nothing else and returns a receipt whose two booleans are K's    *)
(* prior membership in the current and the previous set, and                *)
(* revert_unpark_validator with that receipt restores the contract exactly. *)
C22_Unpark ==
    \A k \in BlsPublicKey :
        LET r == unpark_validator(Self, k)
            current_epoch == k \in current_epoch_parking
            previous_epoch == k \in previous_epoch_parking
        IN IF ~current_epoch /\ ~previous_epoch
           THEN r.res = "InvalidForRecipient" /\ r.self = Self
           ELSE /\ r.res = "Ok"
                /\ r.self = [Self EXCEPT !.current_epoch_parking = @ \ {k},
                                         !.previous_epoch_parking = @ \ {k}]
                /\ r.receipt = Some(UnparkReceipt(current_epoch, previous_epoch))
                /\ LET u == revert_unpark_validator(r.self, k, r.receipt.val) IN
                   u.res = "Ok" /\ u.self = Self

(* An unpark has succeeded on a key that was parked in the previous epoch.  *)
C22_Witness ==
    /\ last = Last("unpark_validator", "Ok")
    /\ log # <<>>
    /\ Head(log).op = "unpark_validator"
    /\ Head(log).args.k \in Head(log).pre.previous_epoch_parking
    /\ Head(log).args.k \notin previous_epoch_parking

(* C23: committing a valid Slash inherent for key K adds K to                *)
(* current_epoch_parking, changes nothing else and returns a receipt with    *)
(* newly_slashed true iff K was not in current_epoch_parking; revert_inherent *)
(* with that receipt restores the contract exactly, also for a second slash  *)
(* of the same key when the two are reverted in reverse order.               *)
C23_SlashRevert ==
    \A k \in BlsPublicKey :
        LET inherent == Inherent("Slash", 0, <<k>>)
            r1 == commit_inherent(Self, inherent, block_height, <<>>)
            r2 == commit_inherent(r1.self, inherent, block_height, <<>>)
            u2 == revert_inherent(r2.self, inherent, r2.receipt)
            u1 == revert_inherent(u2.self, inherent, r1.receipt)
        IN check_inherent(Self, inherent) = "Ok" =>
            /\ r1.res = "Ok"
            /\ r1.self = [Self EXCEPT !.current_epoch_parking = @ \cup {k}]
            /\ r1.receipt = Some(SlashReceipt(k \notin current_epoch_parking))
            /\ revert_inherent(r1.self, inherent, r1.receipt) = Ok(Self, None)
            /\ r2.res = "Ok"
            /\ r2.self = r1.self
            /\ r2.receipt = Some(SlashReceipt(FALSE))
            /\ u2 = Ok(r1.self, None)
            /\ u1 = Ok(Self, None)

(* A Slash has been committed for a key that was already parked in the      *)
(* current epoch.                                                           *)
C23_Witness ==
    /\ last = Last("slash", "Ok")
    /\ log # <<>>
    /\ Head(log).op = "slash"
    /\ Head(log).receipt = Some(SlashReceipt(FALSE))
    /\ Head(log).args.inherent.data[1] \in Head(log).pre.current_epoch_parking

C25_FinalizeRotation ==
    \A value \in Coin, data \in {<<>>, <<1>>}, order \in Orders(previous_epoch_parking) :
        LET r == commit_inherent(Self, Inherent("FinalizeEpoch", value, data),
                                 block_height, order)
        IN r.res = "Ok" =>
            /\ r.self.previous_epoch_parking = current_epoch_parking
            /\ r.self.current_epoch_parking = {}
            /\ r.receipt = None

(* A FinalizeEpoch has just rotated a non-empty current_epoch_parking. *)
C25_Witness ==
    /\ last = Last("finalize_epoch", "Ok")
    /\ previous_epoch_parking # {}
    /\ current_epoch_parking = {}

(* C26: if an active validator K that is not parked for the previous epoch  *)
(* is slashed and the next two operations are FinalizeEpoch commits, then    *)
(* after the first K is still active and in previous_epoch_parking, and      *)
(* after the second K is in the inactive map, not in the active map or the   *)
(* sorted set, and every staker with positive active stake under K has had   *)
(* that stake moved to inactive_stake_by_address.                            *)
C26_SlashSweep ==
    \A k \in DOMAIN active_validators_by_key \ previous_epoch_parking :
        LET h == active_validators_by_key[k]
            stakes == arc[h].active_stake_by_address
            finalize == Inherent("FinalizeEpoch", 0, <<>>)
            s == commit_inherent(Self, Inherent("Slash", 0, <<k>>), block_height, <<>>)
        IN /\ s.res = "Ok"
           /\ \A o1 \in Orders(s.self.previous_epoch_parking) :
                 LET f1 == commit_inherent(s.self, finalize, block_height, o1) IN
                 /\ f1.res = "Ok"
                 /\ k \in DOMAIN f1.self.active_validators_by_key
                 /\ k \in f1.self.previous_epoch_parking
                 /\ \A o2 \in Orders(f1.self.previous_epoch_parking) :
                       LET f2 == commit_inherent(f1.self, finalize, block_height, o2) IN
                       /\ f2.res = "Ok"
                       /\ k \notin DOMAIN f2.self.active_validators_by_key
                       /\ \A i \in 1 .. Len(f2.self.active_validators_sorted) :
                             f2.self.active_validators_sorted[i] # h
                       /\ k \in DOMAIN f2.self.inactive_validators_by_key
                       /\ \A a \in DOMAIN stakes :
                             stakes[a] > 0 =>
                                /\ a \notin DOMAIN f2.self.arc[h].active_stake_by_address
                                /\ a \in DOMAIN f2.self.inactive_stake_by_address
                                /\ f2.self.inactive_stake_by_address[a].balance =
                                      stakes[a]
                                      + (IF a \in DOMAIN inactive_stake_by_address
                                         THEN inactive_stake_by_address[a].balance ELSE 0)

(* C27: revert_inherent of a FinalizeEpoch inherent returns InvalidForTarget *)
(* in every state, whatever the inherent's value and data and whether or not *)
(* a receipt is given, and leaves the contract unchanged.                    *)
C27_FinalizeNotRevertible ==
    \A value \in Coin, data \in {<<>>} \cup {<<k>> : k \in BlsPublicKey},
       receipt \in {None, Some(SlashReceipt(TRUE)), Some(SlashReceipt(FALSE))} :
        revert_inherent(Self, Inherent("FinalizeEpoch", value, data), receipt)
            = Err(Self, "InvalidForTarget")

(* A FinalizeEpoch has just been committed at the height at which a         *)
(* validator became inactive.                                               *)
C27_Witness ==
    /\ last = Last("finalize_epoch", "Ok")
    /\ \E k \in DOMAIN inactive_validators_by_key :
          inactive_validators_by_key[k].retire_time = block_height
    /\ log = <<>>

(* C28: for every Reward inherent, whatever its value and data,             *)
(* check_inherent returns InvalidForTarget and commit_inherent returns that  *)
(* error without changing the contract.                                      *)
C28_RewardRejected ==
    \A value \in Coin, data \in {<<>>} \cup {<<k>> : k \in BlsPublicKey} :
        LET inherent == Inherent("Reward", value, data) IN
        /\ check_inherent(Self, inherent) = "InvalidForTarget"
        /\ commit_inherent(Self, inherent, block_height, <<>>) = Err(Self, "InvalidForTarget")

(* C29: reverting an Unpark self-transaction or a Slash inherent without a  *)
(* receipt returns InvalidReceipt; revert_unstake returns InvalidReceipt     *)
(* when the staker has no inactive entry and no receipt is given, and when   *)
(* the staker has an inactive entry and a receipt is given.                  *)
C29_MissingReceipt ==
    /\ \A k \in BlsPublicKey, v \in Coin :
          revert_incoming_transaction(Self, "Unpark", k, v, None).res = "InvalidReceipt"
    /\ \A v \in Coin, data \in {<<>>} \cup {<<k>> : k \in BlsPublicKey} :
          revert_inherent(Self, Inherent("Slash", v, data), None).res = "InvalidReceipt"
    /\ \A a \in Address, v \in Coin :
          IF a \in DOMAIN inactive_stake_by_address
          THEN \A t \in 0 .. MaxHeight :
                  revert_unstake(Self, a, v, Some(InactiveStakeReceipt(t))).res
                      = "InvalidReceipt"
          ELSE revert_unstake(Self, a, v, None).res = "InvalidReceipt"

(* C29, amended: as C29, except that revert_unstake first adds the value to  *)
(* the contract balance and returns the arithmetic error, with the contract  *)
(* unchanged, when that sum overflows; only otherwise does a missing or      *)
(* superfluous receipt give InvalidReceipt.                                  *)
C29_MissingReceiptUnlessOverflow ==
    /\ \A k \in BlsPublicKey, v \in Coin :
          revert_incoming_transaction(Self, "Unpark", k, v, None).res = "InvalidReceipt"
    /\ \A v \in Coin, data \in {<<>>} \cup {<<k>> : k \in BlsPublicKey} :
          revert_inherent(Self, Inherent("Slash", v, data), None).res = "InvalidReceipt"
    /\ \A a \in Address, v \in Coin :
          LET expected(r) == IF balance + v > MAX_COIN
                             THEN r = Err(Self, "ArithmeticOverflow")
                             ELSE r.res = "InvalidReceipt"
          IN IF a \in DOMAIN inactive_stake_by_address
             THEN \A t \in 0 .. MaxHeight :
                     expected(revert_unstake(Self, a, v, Some(InactiveStakeReceipt(t))))
             ELSE expected(revert_unstake(Self, a, v, None))

(* An unstake has just removed a staker's inactive entry, so that its       *)
(* revert needs the receipt and is refused without it.                      *)
C29_Witness ==
    /\ last = Last("unstake", "Ok")
    /\ log # <<>>
    /\ Head(log).op = "unstake"
    /\ Head(log).receipt.some
    /\ Head(log).args.a \notin DOMAIN inactive_stake_by_address
    /\ revert_unstake(Self, Head(log).args.a, Head(log).args.v, None).res = "InvalidReceipt"

----------------------------------------------------------------------------
(* Serialization of the contract: staking_contract/mod.rs.  The byte stream *)
(* is kept as the sequence of the values written, in the order written.     *)

(* A BTreeMap is written as its entries in ascending key order. *)
SerializeMap(m) ==
    LET keys == Ascending(DOMAIN m) IN
    [i \in 1 .. Len(keys) |-> <<keys[i], m[keys[i]]>>]

RECURSIVE DeserializeMap(_)
DeserializeMap(entries) ==
    IF entries = <<>> THEN EmptyMap
    ELSE MapPut(DeserializeMap(SubSeq(entries, 1, Len(entries) - 1)),
                entries[Len(entries)][1], entries[Len(entries)][2])

(* #[derive(Serialize, Deserialize)] struct Validator: its fields in order. *)
serialize_validator(v) ==
    <<v.balance, v.reward_address, v.validator_key, SerializeMap(v.active_stake_by_address)>>
deserialize_validator(bytes) ==
    Validator(bytes[1], bytes[2], bytes[3], DeserializeMap(bytes[4]))

(* The address of an active record, under which its inactive stake is       *)
(* looked up and re-inserted: the one Address a Validator carries.          *)
record_address(v) == v.reward_address

(* impl Serialize for StakingContract *)
serialize(self) ==
    LET sorted == self.active_validators_sorted
        m == self.inactive_stake_by_address
        active == {record_address(self.arc[sorted[i]]) : i \in 1 .. Len(sorted)}
        inactive_stakes == Ascending(DOMAIN m \ active)
    IN [balance |-> self.balance,
        active |->
            [i \in 1 .. Len(sorted) |->
                LET active_stake == self.arc[sorted[i]] IN
                [active_stake |-> serialize_validator(active_stake),
                 inactive_stake |->
                    IF contains_key(m, record_address(active_stake))
                    THEN Some(m[record_address(active_stake)]) ELSE None]],
        inactive_stakes |->
            [i \in 1 .. Len(inactive_stakes) |->
                <<inactive_stakes[i], m[inactive_stakes[i]]>>],
        current_epoch_parking |-> Ascending(self.current_epoch_parking),
        previous_epoch_parking |-> Ascending(self.previous_epoch_parking)]

(* impl Deserialize for StakingContract: the loop over the active records. *)
RECURSIVE read_active(_, _)
read_active(self, records) ==
    IF records = <<>> THEN self
    ELSE LET active_stake == deserialize_validator(Head(records).active_stake)
             inactive_stake == Head(records).inactive_stake
             h == ArcNew(self)
             heap == MapPut(self.arc, h, active_stake)
         IN read_active(
                [self EXCEPT
                    !.arc = heap,
                    !.active_validators_sorted = sorted_insert(heap, @, h),
                    !.active_validators_by_key = MapPut(@, active_stake.validator_key, h),
                    !.inactive_stake_by_address =
                        IF inactive_stake.some
                        THEN MapPut(@, record_address(active_stake), inactive_stake.val)
                        ELSE @],
                Tail(records))

(* The loop over the remaining inactive stakes. *)
RECURSIVE read_inactive(_, _)
read_inactive(self, entries) ==
    IF entries = <<>> THEN self
    ELSE read_inactive(
            [self EXCEPT !.inactive_stake_by_address =
                             MapPut(@, Head(entries)[1], Head(entries)[2])],
            Tail(entries))

(* The stream holds no inactive validator, and none is rebuilt. *)
deserialize(bytes) ==
    LET stakes == read_inactive(
                      read_active([Default EXCEPT !.balance = bytes.balance], bytes.active),
                      bytes.inactive_stakes)
    IN DropUnreferenced(
           [stakes EXCEPT
               !.current_epoch_parking =
                   {bytes.current_epoch_parking[i] : i \in 1 .. Len(bytes.current_epoch_parking)},
               !.previous_epoch_parking =
                   {bytes.previous_epoch_parking[i] : i \in 1 .. Len(bytes.previous_epoch_parking)}])

(* C30: for every reachable contract S, deserialize(serialize(S)) equals S  *)
(* in every field: balance, the active validators (set and map), the        *)
(* inactive validators, all inactive stakes and both parking sets.          *)
C30_SerializationRoundTrip ==
    View(deserialize(serialize(Self))) = View(Self)

----------------------------------------------------------------------------
(* Receipt encoding: #[derive(Serialize, Deserialize)] on the receipt       *)
(* structs.  A value is written as its fields in declaration order: an      *)
(* integer big-endian in its fixed width, a bool as one byte 0 or 1, an     *)
(* Option as a tag byte 0 or 1 followed by the value, a map as its length   *)
(* followed by its entries in key order.  Widths are scaled down.           *)
ByteRange == 4
U32Size == 2
CoinSize == 2

RECURSIVE be(_, _)
be(n, width) ==
    IF width = 0 THEN <<>> ELSE be(n \div ByteRange, width - 1) \o <<n % ByteRange>>

RECURSIVE from_be(_)
from_be(bytes) ==
    IF bytes = <<>> THEN 0
    ELSE from_be(SubSeq(bytes, 1, Len(bytes) - 1)) * ByteRange + bytes[Len(bytes)]

(* A reader's result: the value and the bytes not yet consumed, or failure. *)
Read(val, rest) == [ok |-> TRUE, val |-> val, rest |-> rest]
ReadError == [ok |-> FALSE]

read_uint(bytes, width) ==
    IF Len(bytes) < width THEN ReadError
    ELSE Read(from_be(SubSeq(bytes, 1, width)), SubSeq(bytes, width + 1, Len(bytes)))

(* A bool writer that writes every value as 1. *)
write_bool_constant(b) == <<1>>

write_bool(b) == <<IF b THEN 1 ELSE 0>>
read_bool(bytes) ==
    IF bytes = <<>> \/ bytes[1] > 1 THEN ReadError
    ELSE Read(bytes[1] = 1, Tail(bytes))

(* InactiveStakeReceipt and InactiveValidatorReceipt: { retire_time: u32 } *)
write_retire_time_receipt(r) == be(r.retire_time, U32Size)
read_retire_time_receipt(bytes) ==
    LET t == read_uint(bytes, U32Size) IN
    IF ~t.ok THEN ReadError ELSE Read([retire_time |-> t.val], t.rest)

(* Option<InactiveStakeReceipt> *)
write_option_receipt(o) ==
    IF o.some THEN <<1>> \o write_retire_time_receipt(o.val) ELSE <<0>>
read_option_receipt(bytes) ==
    IF bytes = <<>> \/ bytes[1] > 1 THEN ReadError
    ELSE IF bytes[1] = 0 THEN Read(None, Tail(bytes))
    ELSE LET r == read_retire_time_receipt(Tail(bytes)) IN
         IF ~r.ok THEN ReadError ELSE Read(Some(r.val), r.rest)

(* BTreeMap<Address, (Coin, Option<InactiveStakeReceipt>)> *)
RECURSIVE write_retirements(_, _)
write_retirements(m, order) ==
    IF order = <<>> THEN <<>>
    ELSE be(Head(order), ADDRESS_SIZE) \o be(m[Head(order)].stake, CoinSize)
         \o write_option_receipt(m[Head(order)].receipt)
         \o write_retirements(m, Tail(order))

RECURSIVE read_retirements(_, _, _)
read_retirements(bytes, count, m) ==
    IF count = 0 THEN Read(m, bytes)
    ELSE LET a == read_uint(bytes, ADDRESS_SIZE) IN
         IF ~a.ok THEN ReadError
         ELSE LET c == read_uint(a.rest, CoinSize) IN
              IF ~c.ok THEN ReadError
              ELSE LET o == read_option_receipt(c.rest) IN
                   IF ~o.ok THEN ReadError
                   ELSE read_retirements(o.rest, count - 1,
                                         MapPut(m, a.val, [stake |-> c.val, receipt |-> o.val]))

(* Receipt::serialize_to_vec, by receipt type. *)
serialize_to_vec(kind, r) ==
    CASE kind = "UnparkReceipt" -> write_bool(r.current_epoch) \o write_bool(r.previous_epoch)
      [] kind = "SlashReceipt" -> write_bool(r.newly_slashed)
      [] kind = "UpdateValidatorReceipt" -> be(r.old_reward_address, ADDRESS_SIZE)
      [] kind = "DropValidatorReceipt" ->
            be(r.reward_address, ADDRESS_SIZE)
            \o be(Cardinality(DOMAIN r.retirement_by_address), U32Size)
            \o write_retirements(r.retirement_by_address,
                                 Ascending(DOMAIN r.retirement_by_address))
            \o be(r.retire_time, U32Size)
      [] OTHER -> write_retire_time_receipt(r)

(* Deserialize::deserialize_from_vec: fails on a short or malformed input   *)
(* and on bytes left over.                                                  *)
deserialize_from_vec(kind, bytes) ==
    LET d == CASE kind = "UnparkReceipt" ->
                    LET c == read_bool(bytes) IN
                    IF ~c.ok THEN ReadError
                    ELSE LET q == read_bool(c.rest) IN
                         IF ~q.ok THEN ReadError
                         ELSE Read(UnparkReceipt(c.val, q.val), q.rest)
               [] kind = "SlashReceipt" ->
                    LET n == read_bool(bytes) IN
                    IF ~n.ok THEN ReadError ELSE Read(SlashReceipt(n.val), n.rest)
               [] kind = "UpdateValidatorReceipt" ->
                    LET a == read_uint(bytes, ADDRESS_SIZE) IN
                    IF ~a.ok THEN ReadError ELSE Read(UpdateValidatorReceipt(a.val), a.rest)
               [] kind = "DropValidatorReceipt" ->
                    LET a == read_uint(bytes, ADDRESS_SIZE) IN
                    IF ~a.ok THEN ReadError
                    ELSE LET n == read_uint(a.rest, U32Size) IN
                         IF ~n.ok THEN ReadError
                         ELSE LET m == read_retirements(n.rest, n.val, EmptyMap) IN
                              IF ~m.ok THEN ReadError
                              ELSE LET t == read_uint(m.rest, U32Size) IN
                                   IF ~t.ok THEN ReadError
                                   ELSE Read(DropValidatorReceipt(a.val, m.val, t.val), t.rest)
               [] OTHER -> read_retire_time_receipt(bytes)
    IN IF d.ok /\ d.rest = <<>> THEN d ELSE ReadError

(* The receipt type each operation emits. *)
receipt_kind(op) ==
    CASE op = "unpark_validator" -> "UnparkReceipt"
      [] op = "slash" -> "SlashReceipt"
      [] op = "update_validator" -> "UpdateValidatorReceipt"
      [] op = "drop_validator" -> "DropValidatorReceipt"
      [] op = "reactivate_validator" -> "InactiveValidatorReceipt"
      [] OTHER -> "InactiveStakeReceipt"

(* Receipts of the fixed-size types, over all their field values. *)
SmallReceipts ==
    {<<"UnparkReceipt", UnparkReceipt(c, q)>> : c \in BOOLEAN, q \in BOOLEAN}
    \cup {<<"SlashReceipt", SlashReceipt(n)>> : n \in BOOLEAN}
    \cup {<<"UpdateValidatorReceipt", UpdateValidatorReceipt(a)>> : a \in Address}
    \cup {<<"InactiveStakeReceipt", InactiveStakeReceipt(t)>> : t \in 0 .. MaxHeight}
    \cup {<<"InactiveValidatorReceipt", InactiveValidatorReceipt(t)>> : t \in 0 .. MaxHeight}

(* The receipts of the logged commits. *)
EmittedReceipts ==
    {<<receipt_kind(log[i].op), log[i].receipt.val>> :
        i \in {j \in 1 .. Len(log) : log[j].receipt.some}}

----------------------------------------------------------------------------
(* Validator selection: staking_contract/mod.rs, select_validators. *)

(* policy::SLOTS, scaled down, and the seeds tried. *)
SLOTS == 2
VrfSeed == 0 .. 2

RECURSIVE SeqSum(_)
SeqSum(weights) ==
    IF weights = <<>> THEN 0 ELSE Head(weights) + SeqSum(Tail(weights))

(* AliasMethod::sample driven by seed.rng(ValidatorSelection, 0): the       *)
(* sample'th draw is a fixed function of the weights and the seed, and      *)
(* picks index j with probability weight j / total.                         *)
RECURSIVE pick(_, _, _)
pick(weights, target, j) ==
    IF target < weights[j] THEN j ELSE pick(weights, target - weights[j], j + 1)
sample(weights, seed, n) == pick(weights, (seed + n) % SeqSum(weights), 1)

(* select_validators: the records of the sorted set with their balances as *)
(* weights; a slot carries the chosen record's key and reward address.  An  *)
(* empty table has nothing to index.                                        *)
select_validators(self, seed) ==
    LET potential_validators == self.active_validators_sorted
        weights == [i \in 1 .. Len(potential_validators) |->
                        self.arc[potential_validators[i]].balance]
    IN IF SeqSum(weights) = 0 THEN [res |-> "Panic", slots |-> <<>>]
       ELSE [res |-> "Ok",
             slots |-> [n \in 1 .. SLOTS |->
                          LET active_stake ==
                                  self.arc[potential_validators[sample(weights, seed, n)]]
                          IN [validator_key |-> active_stake.validator_key,
                              reward_address |-> active_stake.reward_address]]]

(* C32: select_validators returns the same Slots for equal contracts and    *)
(* the same seed, here for the contract and its serialization round trip    *)
(* when that is an equal contract; and whenever some validator in the       *)
(* sorted set has weight, the result has exactly SLOTS entries, each naming *)
(* the key and reward address of a validator of the active map.             *)
C32_DeterministicSelection ==
    \A seed \in VrfSeed :
        LET r == select_validators(Self, seed)
            copy == deserialize(serialize(Self))
        IN /\ View(copy) = View(Self) => select_validators(copy, seed) = r
           /\ r.res = "Ok" =>
                /\ Len(r.slots) = SLOTS
                /\ \A n \in 1 .. SLOTS :
                      \E k \in DOMAIN active_validators_by_key :
                          LET v == arc[active_validators_by_key[k]] IN
                          /\ r.slots[n].validator_key = v.validator_key
                          /\ r.slots[n].reward_address = v.reward_address

----------------------------------------------------------------------------
(* The transaction builder: transaction-builder/src. *)

(* Addresses a builder may name: the staker addresses and one more.  A key  *)
(* pair is written as the address derived from it.                          *)
BuilderAddress == 0 .. NumAddrs

(* recipient/staking_contract.rs: StakingTransaction *)
StakeData(validator_key, reward_address) ==
    [validator_key |-> validator_key, reward_address |-> reward_address, ty |-> "Stake"]
RetireData == [ty |-> "Retire"]
UnparkData == [ty |-> "Unpark"]

is_self_transaction(data) == data.ty # "Stake"

(* StakingRecipientBuilder *)
new_staking_builder(staking_contract) ==
    [staking_contract |-> staking_contract, staking_data |-> None]
stake_with_bls_key(rb, key_pair, reward_address) ==
    [rb EXCEPT !.staking_data = Some(StakeData(key_pair, reward_address))]
retire(rb) == [rb EXCEPT !.staking_data = Some(RetireData)]
unpark(rb) == [rb EXCEPT !.staking_data = Some(UnparkData)]
recipient_generate(rb) ==
    IF ~rb.staking_data.some THEN None
    ELSE Some([kind |-> "Staking", data |-> rb.staking_data.val,
               address |-> rb.staking_contract])

(* recipient/mod.rs: Recipient *)
new_basic(address) == [kind |-> "Basic", address |-> address]

is_creation(recipient) == recipient.kind \notin {"Basic", "Staking"}

account_type(recipient) ==
    CASE recipient.kind = "Basic" -> "Basic"
      [] recipient.kind = "HtlcCreation" -> "HTLC"
      [] recipient.kind = "VestingCreation" -> "Vesting"
      [] recipient.kind = "Staking" -> "Staking"

recipient_data(recipient) ==
    IF recipient.kind = "Staking" THEN recipient.data ELSE [ty |-> recipient.kind]

is_valid_sender_any(recipient, sender, sender_type) == TRUE

is_valid_sender(recipient, sender, sender_type) ==
    IF recipient.kind = "Staking"
    THEN IF is_self_transaction(recipient.data)
         THEN recipient.address = sender /\ sender_type = Some("Staking")
         ELSE TRUE
    ELSE TRUE

(* Transaction::new_extended and Transaction::new_contract_creation; the    *)
(* address of a created contract is one no builder input names.             *)
new_extended(sender, sender_type, recipient, recipient_type, value, fee, data, validity_start_height, network_id) ==
    [value |-> value, data |-> data, recipient |-> recipient, sender |-> sender,
     sender_type |-> sender_type, recipient_type |-> recipient_type, fee |-> fee,
     validity_start_height |-> validity_start_height, network_id |-> network_id,
     contract_creation |-> FALSE, proof |-> None]

new_contract_creation(data, sender, sender_type, recipient_type, value, fee, validity_start_height, network_id) ==
    [new_extended(sender, sender_type, NumAddrs + 1, recipient_type, value, fee, data,
                  validity_start_height, network_id)
        EXCEPT !.contract_creation = TRUE]

(* TransactionBuilder *)
TransactionBuilder_new ==
    [value |-> None, recipient |-> None, sender |-> None, sender_type |-> None,
     fee |-> None, validity_start_height |-> None, network_id |-> None]

with_value(b, value) == [b EXCEPT !.value = Some(value)]
with_fee(b, fee) == [b EXCEPT !.fee = Some(fee)]
with_sender(b, sender) == [b EXCEPT !.sender = Some(sender)]
with_sender_type(b, sender_type) == [b EXCEPT !.sender_type = Some(sender_type)]
with_recipient(b, recipient) == [b EXCEPT !.recipient = Some(recipient)]
with_network_id(b, network_id) == [b EXCEPT !.network_id = Some(network_id)]
with_validity_start_height(b, validity_start_height) ==
    [b EXCEPT !.validity_start_height = Some(validity_start_height)]

(* proof/mod.rs: TransactionProofBuilder::new picks the proof builder by    *)
(* the transaction's sender type.                                           *)
TransactionProofBuilder_new(transaction) ==
    [kind |-> transaction.sender_type, transaction |-> transaction]

generate(b) ==
    IF ~b.sender.some THEN [res |-> "NoSender"]
    ELSE IF ~b.recipient.some THEN [res |-> "NoRecipient"]
    ELSE IF ~is_valid_sender(b.recipient.val, b.sender.val, b.sender_type)
    THEN [res |-> "InvalidSender"]
    ELSE IF ~b.value.some THEN [res |-> "NoValue"]
    ELSE IF ~b.validity_start_height.some THEN [res |-> "NoValidityStartHeight"]
    ELSE IF ~b.network_id.some THEN [res |-> "NoNetworkId"]
    ELSE LET recipient == b.recipient.val
             tx == IF is_creation(recipient)
                   THEN new_contract_creation(recipient_data(recipient), b.sender.val,
                            (IF b.sender_type.some THEN b.sender_type.val ELSE "Basic"), account_type(recipient),
                            b.value.val, (IF b.fee.some THEN b.fee.val ELSE 0),
                            b.validity_start_height.val, b.network_id.val)
                   ELSE new_extended(b.sender.val, (IF b.sender_type.some THEN b.sender_type.val ELSE "Basic"),
                            recipient.address, account_type(recipient),
                            b.value.val, (IF b.fee.some THEN b.fee.val ELSE 0), recipient_data(recipient),
                            b.validity_start_height.val, b.network_id.val)
         IN [res |-> "Ok", proof_builder |-> TransactionProofBuilder_new(tx)]

(* BasicProofBuilder: sign_with_key_pair, then generate. *)
sign_with_key_pair(transaction, key_pair) ==
    [transaction EXCEPT !.proof = Some([signer |-> key_pair])]

(* The convenience constructors unwrap the builder's result and expect the  *)
(* proof builder of their sender type; anything else panics.                *)
Built(b, expected, key_pair) ==
    LET g == generate(b) IN
    IF g.res # "Ok" \/ g.proof_builder.kind # expected THEN [res |-> "Panic"]
    ELSE [res |-> "Ok", tx |-> sign_with_key_pair(g.proof_builder.transaction, key_pair)]

new_staking(key_pair, staking_contract, validator_key, value, fee, reward_address, validity_start_height, network_id) ==
    LET recipient == stake_with_bls_key(new_staking_builder(staking_contract),
                                        validator_key, reward_address)
    IN Built(with_network_id(with_validity_start_height(with_fee(with_value(
                 with_recipient(with_sender(TransactionBuilder_new, key_pair),
                                recipient_generate(recipient).val),
                 value), fee), validity_start_height), network_id),
             "Basic", key_pair)

new_retire(key_pair, staking_contract, value, fee, validity_start_height, network_id) ==
    LET recipient == retire(new_staking_builder(staking_contract))
    IN Built(with_network_id(with_validity_start_height(with_fee(with_value(
                 with_recipient(with_sender_type(
                                    with_sender(TransactionBuilder_new, staking_contract),
                                    "Staking"),
                                recipient_generate(recipient).val),
                 value), fee), validity_start_height), network_id),
             "Staking", key_pair)

(* A new_unpark whose value is the whole active stake. *)
new_unpark_with_full_value(key_pair, staking_contract, active_stake, fee, validity_start_height, network_id) ==
    LET recipient == unpark(new_staking_builder(staking_contract))
    IN Built(with_network_id(with_validity_start_height(with_fee(with_value(
                 with_recipient(with_sender_type(
                                    with_sender(TransactionBuilder_new, staking_contract),
                                    "Staking"),
                                recipient_generate(recipient).val),
                 active_stake), fee), validity_start_height), network_id),
             "Staking", key_pair)

(* active_stake - fee is a Coin subtraction: there is no Coin below zero.   *)
new_unpark(key_pair, staking_contract, active_stake, fee, validity_start_height, network_id) ==
    LET recipient == unpark(new_staking_builder(staking_contract))
    IN IF fee > active_stake THEN [res |-> "Panic"]
       ELSE Built(with_network_id(with_validity_start_height(with_fee(with_value(
                      with_recipient(with_sender_type(
                                         with_sender(TransactionBuilder_new, staking_contract),
                                         "Staking"),
                                     recipient_generate(recipient).val),
                      active_stake - fee), fee), validity_start_height), network_id),
                  "Staking", key_pair)

----------------------------------------------------------------------------
(* A client of the builder: it sets the fields of a TransactionBuilder in   *)
(* any order and generates, or calls one of the convenience constructors.   *)
(* `last` holds the builder, the call made last and what it returned; the   *)
(* contract is not involved and stays as created.                           *)
BuilderState(op, b, live, args, out) ==
    [res |-> out.res, op |-> op, args |-> args, live |-> live, out |-> out, builder |-> b]

BuilderFrame ==
    UNCHANGED <<balance, arc, active_validators_sorted, active_validators_by_key,
                inactive_validators_by_key, current_epoch_parking,
                previous_epoch_parking, inactive_stake_by_address, block_height, log,
                created, steps, budget>>

BuilderInit ==
    LET self == genesis(Default, <<>>) IN
    /\ balance = self.balance
    /\ arc = self.arc
    /\ active_validators_sorted = self.active_validators_sorted
    /\ active_validators_by_key = self.active_validators_by_key
    /\ inactive_validators_by_key = self.inactive_validators_by_key
    /\ current_epoch_parking = self.current_epoch_parking
    /\ previous_epoch_parking = self.previous_epoch_parking
    /\ inactive_stake_by_address = self.inactive_stake_by_address
    /\ created = {}
    /\ block_height = 0
    /\ log = <<>>
    /\ last = BuilderState("new", TransactionBuilder_new, TRUE, [none |-> TRUE],
                           [res |-> "None"])
    /\ steps = 0
    /\ budget = 0

BuilderNew ==
    /\ ~last.live
    /\ last' = BuilderState("new", TransactionBuilder_new, TRUE, [none |-> TRUE],
                            [res |-> "None"])
    /\ BuilderFrame

(* with_value, with_fee, with_sender, with_sender_type, with_recipient,    *)
(* with_network_id, with_validity_start_height.                            *)
With ==
    /\ last.live
    /\ \E b \in
            {with_value(last.builder, value) : value \in Coin}
              \cup {with_fee(last.builder, fee) : fee \in Coin}
              \cup {with_sender(last.builder, sender) : sender \in BuilderAddress}
              \cup {with_sender_type(last.builder, sender_type) :
                       sender_type \in {"Basic", "Vesting", "HTLC", "Staking"}}
              \cup {with_recipient(last.builder, new_basic(a)) : a \in BuilderAddress}
              \cup {with_recipient(last.builder, [kind |-> k]) :
                       k \in {"HtlcCreation", "VestingCreation"}}
              \cup {with_recipient(last.builder,
                                   [kind |-> "Staking", data |-> d, address |-> a]) :
                       a \in BuilderAddress,
                       d \in {StakeData(1, None), RetireData, UnparkData}}
              \cup {with_network_id(last.builder, "Dummy"),
                    with_validity_start_height(last.builder, 1)} :
          last' = BuilderState("with", b, TRUE, [none |-> TRUE], [res |-> "None"])
    /\ BuilderFrame

(* generate consumes the builder, and so does a convenience constructor,   *)
(* which makes and fills its own.                                           *)
Generate ==
    /\ last.live
    /\ last' = BuilderState("generate", last.builder, FALSE, [none |-> TRUE],
                            generate(last.builder))
    /\ BuilderFrame

NewStaking ==
    \E signer \in BuilderAddress, contract \in BuilderAddress,
       key \in BlsPublicKey, v \in Coin, f \in Coin,
       reward \in {None} \cup {Some(a) : a \in Address} :
        /\ last.op = "new"
        /\ BuilderFrame
        /\ last' = BuilderState("new_staking", TransactionBuilder_new, FALSE,
                    [key_pair |-> signer, staking_contract |-> contract,
                     validator_key |-> key, value |-> v, fee |-> f,
                     reward_address |-> reward],
                    new_staking(signer, contract, key, v, f, reward, 1, "Dummy"))
NewRetire ==
    \E key_pair \in BuilderAddress, staking_contract \in BuilderAddress, value \in Coin,
       fee \in Coin :
        /\ last.op = "new"
        /\ BuilderFrame
        /\ last' = BuilderState("new_retire", TransactionBuilder_new, FALSE,
                    [key_pair |-> key_pair, staking_contract |-> staking_contract,
                     value |-> value, fee |-> fee],
                    new_retire(key_pair, staking_contract, value, fee, 1, "Dummy"))
NewUnpark ==
    \E key_pair \in BuilderAddress, staking_contract \in BuilderAddress,
       active_stake \in 0 .. MaxValidatorBalance, fee \in Coin :
        /\ last.op = "new"
        /\ BuilderFrame
        /\ last' = BuilderState("new_unpark", TransactionBuilder_new, FALSE,
                    [key_pair |-> key_pair, staking_contract |-> staking_contract,
                     active_stake |-> active_stake, fee |-> fee],
                    new_unpark(key_pair, staking_contract, active_stake, fee, 1, "Dummy"))

BuilderNext ==
    \/ BuilderNew
    \/ With
    \/ Generate
    \/ NewStaking
    \/ NewRetire
    \/ NewUnpark

BuilderSpec == BuilderInit /\ [][BuilderNext]_vars

(* C33: generate on a builder with a sender and a recipient returns         *)
(* InvalidSender exactly when the recipient is a staking Retire or Unpark   *)
(* and the sender is not the recipient's address with sender type Staking,  *)
(* so a Stake recipient and every non-staking recipient accept any sender;  *)
(* a transaction built by new_retire or new_unpark has sender = recipient = *)
(* the staking contract with both types Staking, and one built by           *)
(* new_staking has the staking contract as recipient of type Staking and    *)
(* the signer's address as sender.                                          *)
C33_SelfTransactionRule ==
    /\ (last.op = "generate" /\ last.builder.sender.some /\ last.builder.recipient.some) =>
          LET b == last.builder
              recipient == b.recipient.val
              self_tx == recipient.kind = "Staking" /\ recipient.data.ty \in {"Retire", "Unpark"}
              allowed == b.sender.val = recipient.address /\ b.sender_type = Some("Staking")
          IN last.res = "InvalidSender" <=> (self_tx /\ ~allowed)
    /\ (last.op \in {"new_retire", "new_unpark"} /\ last.res = "Ok") =>
          LET tx == last.out.tx IN
          /\ tx.sender = last.args.staking_contract
          /\ tx.recipient = last.args.staking_contract
          /\ tx.sender_type = "Staking"
          /\ tx.recipient_type = "Staking"
    /\ last.op = "new_retire" => last.res = "Ok"
    /\ last.op = "new_staking" =>
          /\ last.res = "Ok"
          /\ last.out.tx.recipient = last.args.staking_contract
          /\ last.out.tx.recipient_type = "Staking"
          /\ last.out.tx.sender = last.args.key_pair

(* generate has just refused a Retire recipient whose address is the        *)
(* sender's, because the sender type is not Staking.                        *)
C33_Witness ==
    /\ last.op = "generate"
    /\ last.res = "InvalidSender"
    /\ last.builder.recipient.val.kind = "Staking"
    /\ last.builder.recipient.val.data = RetireData
    /\ last.builder.sender.val = last.builder.recipient.val.address
    /\ last.builder.sender_type = Some("Basic")

----------------------------------------------------------------------------
(* check_outgoing_transaction, sender = recipient, Unpark: the signer names *)
(* the parked validator; its active stake is the balance of its active      *)
(* record, and total_value is the transaction's value + fee.                *)
check_outgoing_unpark(self, signer, total_value) ==
    IF ~contains_key(self.active_validators_by_key, signer) THEN "InvalidForSender"
    ELSE LET active_stake == self.arc[self.active_validators_by_key[signer]] IN
         IF active_stake.balance # total_value THEN "InvalidForSender"
         ELSE IF signer \notin self.current_epoch_parking
                 /\ signer \notin self.previous_epoch_parking
         THEN "InvalidForSender"
         ELSE "Ok"

----------------------------------------------------------------------------
----------------------------------------------------------------------------
(* C38: every entry (k, v) of active_validators_by_key and every entry      *)
(* (k, iv) of inactive_validators_by_key stores a validator record whose    *)
(* validator_key is k, so get_validator(validator_key of the record)        *)
(* returns that same record.                                                *)
C38_MapKeyConsistency ==
    /\ \A k \in DOMAIN active_validators_by_key :
          LET h == active_validators_by_key[k] IN
          /\ arc[h].validator_key = k
          /\ get_validator(Self, arc[h].validator_key) = h
    /\ \A k \in DOMAIN inactive_validators_by_key :
          LET h == inactive_validators_by_key[k].validator IN
          /\ arc[h].validator_key = k
          /\ get_validator(Self, arc[h].validator_key) = h

----------------------------------------------------------------------------
(* C36: every staker address has an entry in the active_stake_by_address    *)
(* map of at most one validator, active or inactive.                        *)
C36_SingleDelegation ==
    \A a \in Address :
        Cardinality({h \in MapValidators(Self) :
                        contains_key(arc[h].active_stake_by_address, a)}) <= 1

----------------------------------------------------------------------------
(* C37: the balance of every validator, active or inactive, is at most the  *)
(* contract's balance, so adding value to a validator's balance cannot      *)
(* pass Coin's maximum once adding it to the contract's balance has not.    *)
C37_ValidatorBalanceBounded ==
    /\ \A h \in MapValidators(Self) : arc[h].balance <= balance
    /\ \A a \in Address, value \in Coin, k \in BlsPublicKey :
          LET r == stake(Self, a, value, k) IN
          r.res = "Ok" => \A h \in MapValidators(r.self) : r.self.arc[h].balance <= MAX_COIN

----------------------------------------------------------------------------
(* What the contract holds for a staker: its entries in the                 *)
(* active_stake_by_address maps of all validators, and its inactive stake.  *)
HoldingsOf(view, a) ==
    LET stake_of(validator) ==
            IF contains_key(validator.active_stake_by_address, a)
            THEN validator.active_stake_by_address[a] ELSE 0
    IN MapSum([k \in DOMAIN view.active_validators_by_key |->
                  stake_of(view.active_validators_by_key[k])])
       + MapSum([k \in DOMAIN view.inactive_validators_by_key |->
                    stake_of(view.inactive_validators_by_key[k].validator)])
       + (IF contains_key(view.inactive_stake_by_address, a)
          THEN view.inactive_stake_by_address[a].balance ELSE 0)

----------------------------------------------------------------------------
(* C40: a successful commit at a height no lower than the retire_time of    *)
(* an inactive-stake entry does not lower that entry's retire_time, if the  *)
(* entry is still there after the commit: the newest logged commit is       *)
(* compared with the state before it, and a FinalizeEpoch with the state it *)
(* is applied to.                                                           *)
C40_CooldownMonotonic ==
    /\ log # <<>> =>
          LET e == Head(log) IN
          \A a \in DOMAIN e.pre.inactive_stake_by_address :
              (/\ a \in DOMAIN inactive_stake_by_address
               /\ e.pre.inactive_stake_by_address[a].retire_time <= e.height)
                  => inactive_stake_by_address[a].retire_time
                         >= e.pre.inactive_stake_by_address[a].retire_time
    /\ \A order \in Orders(previous_epoch_parking) :
          LET f == commit_inherent(Self, Inherent("FinalizeEpoch", 0, <<>>),
                                   block_height, order)
          IN f.res = "Ok" =>
                \A a \in DOMAIN inactive_stake_by_address :
                    a \in DOMAIN f.self.inactive_stake_by_address
                        => f.self.inactive_stake_by_address[a].retire_time
                               >= inactive_stake_by_address[a].retire_time

====
